---- MODULE Spec2Model ----
(***************************************************************************)
(* A model of the input-file layer of the ELF linker                       *)
(* (tools/lld/ELF/InputFiles.cpp): the file registry, the object-file      *)
(* section pass, the shared-object SONAME pass, the lazy wrappers and the  *)
(* binary-blob wrapper.  Every component has its own specification         *)
(* (SpecObj, SpecMerge, ...); the variables of the other components stay   *)
(* at their initial value.                                                 *)
(***************************************************************************)
EXTENDS Integers, Sequences, FiniteSets, TLC

(***************************************************************************)
(* Bounds of the model.                                                    *)
(***************************************************************************)
NumFiles == 2
NumSections == 3
MaxSyms == 2

(***************************************************************************)
(* Pointers.  A section pointer is nullptr, the address of the static      *)
(* InputSection<ELFT>::Discarded object, or the address of an object on    *)
(* the heap (1, 2, ...).  NoShdr is the null Elf_Shdr pointer.             *)
(***************************************************************************)
nullptr == 0
Discarded == -1
NoShdr == -1
GRP_COMDAT == 1

NoError == ""

VARIABLES
  Config,        \* the process-wide configuration record
  ComdatGroups,  \* DenseSet<StringRef>: the COMDAT signatures seen so far
  fileNo,        \* number of object files whose parse has begun
  pc,            \* where the running parse is
  Shdrs,         \* the section headers of the current file read so far
  Walk,          \* for each header read: the branch the loop body took
  ComdatBefore,  \* ComdatGroups when the current file's parse began
  I,             \* the loop index of initializeSections
  Sections,      \* ObjectFile::Sections
  Heap,          \* the section objects allocated by the current file
  Symtab,        \* ELFFileBase::Symtab (a header index, or NoShdr)
  SymtabSHNDX,   \* ELFFileBase::SymtabSHNDX (a header index, or NoShdr)
  MipsReginfo,   \* the three owning pointers of ObjectFile
  MipsOptions,
  MipsAbiFlags,
  HasError,      \* whether error() has reported a diagnostic
  InputClass,    \* the family the input files are drawn from
  fatal,         \* the message of fatal(), NoError while the link runs
  Pool,          \* InputFile::Pool: the files created so far, in order
  Deleted,       \* the files deleted so far, in order
  ArchiveIndex,  \* the archive's symbol index: symbol name -> member offset
  ArchiveSeen,   \* ArchiveFile::Seen: the member offsets handed out
  LazySeen,      \* LazyObjectFile::Seen, for each lazy object file
  Returned,      \* the buffer requests made so far, with what each returned
  BinMB,         \* BinaryFile::MB: the blob's identifier (its path) and size
  ELFData,       \* the ELF image createELF builds around the blob
  SoFile,        \* the shared object handed to SharedFile
  StringTable,   \* ELFFileBase::StringTable
  SoName,        \* SharedFile::SoName
  NumSymbols,    \* the number of entries of the file's symbol table
  ElfSyms,       \* the symbol table entries read so far
  SymbolBodies,  \* ObjectFile::SymbolBodies
  Published,     \* the calls made on the global symbol table, in order
  LazyMB,        \* the symbol table of the object behind a LazyObjectFile
  BcObj,         \* BitcodeFile::Obj: what the bitcode reader exposes
  KeptComdats,   \* the local KeptComdats of BitcodeFile::parse
  BcSymbols,     \* BitcodeFile::Symbols, as the calls that produced them
  DsoMB,         \* the version sections and symbols of a shared object
  Verdefs,       \* the vector parseVerdefs returns
  Undefs,        \* SharedFile::Undefs
  SymRanges      \* what the symbol accessors of an object file returned

objVars == <<Config, ComdatGroups, fileNo, pc, Shdrs, Walk, ComdatBefore, I,
             Sections, Heap, Symtab, SymtabSHNDX, MipsReginfo, MipsOptions, MipsAbiFlags,
             HasError, InputClass, fatal>>

poolVars == <<Pool, Deleted>>
lazyVars == <<ArchiveIndex, ArchiveSeen, LazySeen, Returned>>

binVars == <<BinMB, ELFData>>
soVars == <<SoFile, StringTable, SoName>>

symVars == <<NumSymbols, ElfSyms, SymbolBodies, Published>>

bcVars == <<BcObj, KeptComdats, BcSymbols>>
dsoVars == <<DsoMB, Verdefs, Undefs>>

moreVars == <<LazyMB, bcVars, dsoVars, SymRanges>>

vars == <<objVars, poolVars, lazyVars, binVars, soVars, symVars, moreVars>>

\* The initial values of the components a specification does not run.
IdlePool == Pool = <<>> /\ Deleted = <<>>

IdleLazy ==
  /\ ArchiveIndex = <<>>
  /\ ArchiveSeen = {}
  /\ LazySeen = <<>>
  /\ Returned = <<>>

IdleBin == BinMB = <<>> /\ ELFData = <<>>

IdleSo == SoFile = <<>> /\ StringTable = <<>> /\ SoName = <<>>

IdleSym ==
  /\ NumSymbols = 0
  /\ ElfSyms = <<>>
  /\ SymbolBodies = <<>>
  /\ Published = <<>>

IdleLazyObj == LazyMB = <<>>

IdleBc == BcObj = <<>> /\ KeptComdats = {} /\ BcSymbols = <<>>

IdleDso == DsoMB = <<>> /\ Verdefs = <<>> /\ Undefs = <<>>

IdleRanges == SymRanges = <<>>

IdleMore == IdleLazyObj /\ IdleBc /\ IdleDso /\ IdleRanges

IdleRest == IdlePool /\ IdleLazy /\ IdleBin /\ IdleSo /\ IdleSym /\ IdleMore

(***************************************************************************)
(* Section headers.  sh_type and sh_flags are kept symbolic; contents is   *)
(* the section's contents read as an array of words (SHT_GROUP only) and   *)
(* sig the name of the symbol sh_link/sh_info select (SHT_GROUP only).     *)
(***************************************************************************)
Shdr(type, flags, info, name, size, entsize, addralign, contents, sig) ==
  [sh_type |-> type, sh_flags |-> flags, sh_info |-> info, name |-> name,
   sh_size |-> size, sh_entsize |-> entsize, sh_addralign |-> addralign,
   contents |-> contents, sig |-> sig]

PlainShdr(type, flags, info, name) ==
  Shdr(type, flags, info, name, 0, 0, 1, <<>>, "")

Size == NumSections

\* Name.startswith(".debug")
StartsWithDebug(Name) == Name \in {".debug", ".debug_info", ".debug_str"}

(***************************************************************************)
(* The state of the ObjectFile being parsed, as one record, so that the    *)
(* member functions can be written as operators from state to state.       *)
(***************************************************************************)
ObjState ==
  [Sections |-> Sections, Heap |-> Heap, ComdatGroups |-> ComdatGroups,
   Symtab |-> Symtab, SymtabSHNDX |-> SymtabSHNDX,
   MipsReginfo |-> MipsReginfo, MipsOptions |-> MipsOptions,
   MipsAbiFlags |-> MipsAbiFlags, HasError |-> HasError, fatal |-> fatal]

Fatal(o, msg) == [o EXCEPT !.fatal = msg]

\* A section object: its class (kind), the header it was made for (&Sec),
\* its name, its relocation sections, the section that stands for it
\* (Repl) and whether it has been deleted.
SectionObject(kind, idx, Name) ==
  [kind |-> kind, Sec |-> idx, Name |-> Name, RelocSections |-> <<>>,
   RelocSection |-> NoShdr, Repl |-> nullptr, live |-> TRUE]

\* new (Alloc.Allocate()) T(this, &Sec, Name): the object gets a fresh address.
Allocate(o, kind, idx, Name) ==
  [o |-> [o EXCEPT !.Heap =
            Append(@, [SectionObject(kind, idx, Name) EXCEPT !.Repl = Len(o.Heap) + 1])],
   ret |-> Len(o.Heap) + 1]

\* Owner.reset(new T(this, &Sec, Name)); return Owner.get();
\* reset() deletes the object the owning pointer held before.
ResetOwner(o, owner, kind, idx, Name) ==
  LET old == o[owner]
      a == Allocate(o, kind, idx, Name)
      h == IF old = nullptr THEN a.o.Heap
           ELSE [a.o.Heap EXCEPT ![old].live = FALSE]
  IN  [o |-> [a.o EXCEPT !.Heap = h, ![owner] = a.ret], ret |-> a.ret]

\* shouldMerge without the SHF_STRINGS test before the alignment test.
ShouldMergeIgnoringStrings(Sec) ==
  IF Config.Optimize = 0 THEN [fatal |-> NoError, val |-> FALSE]
  ELSE IF Sec.sh_size = 0 THEN [fatal |-> NoError, val |-> FALSE]
  ELSE IF Sec.sh_entsize = 0 THEN [fatal |-> NoError, val |-> FALSE]
  ELSE IF Sec.sh_size % Sec.sh_entsize # 0
    THEN [fatal |-> "SHF_MERGE section size must be a multiple of sh_entsize",
          val |-> FALSE]
  ELSE IF "SHF_MERGE" \notin Sec.sh_flags THEN [fatal |-> NoError, val |-> FALSE]
  ELSE IF "SHF_WRITE" \in Sec.sh_flags
    THEN [fatal |-> "writable SHF_MERGE section is not supported", val |-> FALSE]
  ELSE [fatal |-> NoError, val |-> Sec.sh_addralign <= Sec.sh_entsize]

shouldMerge(Sec) ==
  IF Config.Optimize = 0 THEN [fatal |-> NoError, val |-> FALSE]
  ELSE IF Sec.sh_size = 0 THEN [fatal |-> NoError, val |-> FALSE]
  ELSE IF Sec.sh_entsize = 0 THEN [fatal |-> NoError, val |-> FALSE]
  ELSE IF Sec.sh_size % Sec.sh_entsize # 0
    THEN [fatal |-> "SHF_MERGE section size must be a multiple of sh_entsize",
          val |-> FALSE]
  ELSE IF "SHF_MERGE" \notin Sec.sh_flags THEN [fatal |-> NoError, val |-> FALSE]
  ELSE IF "SHF_WRITE" \in Sec.sh_flags
    THEN [fatal |-> "writable SHF_MERGE section is not supported", val |-> FALSE]
  ELSE IF "SHF_STRINGS" \in Sec.sh_flags THEN [fatal |-> NoError, val |-> TRUE]
  ELSE [fatal |-> NoError, val |-> Sec.sh_addralign <= Sec.sh_entsize]

\* getRelocTarget returning null for a null entry as it does for a
\* discarded one.
GetRelocTargetDropsNull(o, Sec) ==
  IF Sec.sh_info >= Size
    THEN [fatal |-> "invalid relocated section index", Target |-> nullptr]
  ELSE IF o.Sections[Sec.sh_info] = Discarded
    THEN [fatal |-> NoError, Target |-> nullptr]
  ELSE [fatal |-> NoError, Target |-> o.Sections[Sec.sh_info]]

\* getRelocTarget: the outcome is a fatal message, or the target pointer.
getRelocTarget(o, Sec) ==
  IF Sec.sh_info >= Size
    THEN [fatal |-> "invalid relocated section index", Target |-> nullptr]
  ELSE IF o.Sections[Sec.sh_info] = Discarded
    THEN [fatal |-> NoError, Target |-> nullptr]
  ELSE IF o.Sections[Sec.sh_info] = nullptr
    THEN [fatal |-> "unsupported relocation reference", Target |-> nullptr]
  ELSE [fatal |-> NoError, Target |-> o.Sections[Sec.sh_info]]

\* AttachReloc with the relocation section pushed twice onto a regular target.
AttachRelocTwice(o, idx, Target, kind) ==
  IF kind = "Regular"
    THEN [o |-> [o EXCEPT !.Heap[Target].RelocSections = Append(Append(@, idx), idx)],
          ret |-> nullptr]
  ELSE IF kind = "EHFrame"
    THEN IF o.Heap[Target].RelocSection # NoShdr
           THEN [o |-> Fatal(o, "multiple relocation sections to .eh_frame are not supported"),
                 ret |-> nullptr]
           ELSE [o |-> [o EXCEPT !.Heap[Target].RelocSection = idx],
                 ret |-> nullptr]
  ELSE [o |-> Fatal(o, "relocations pointing to SHF_MERGE are not supported"),
        ret |-> nullptr]

\* AttachReloc in which a further relocation section replaces the pointer
\* of an exception-frame section.
AttachRelocReplacing(o, idx, Target, kind) ==
  IF kind = "Regular"
    THEN [o |-> [o EXCEPT !.Heap[Target].RelocSections = Append(@, idx)],
          ret |-> nullptr]
  ELSE IF kind = "EHFrame"
    THEN [o |-> [o EXCEPT !.Heap[Target].RelocSection = idx], ret |-> nullptr]
  ELSE [o |-> Fatal(o, "relocations pointing to SHF_MERGE are not supported"),
        ret |-> nullptr]

\* The three ways createInputSection treats the target of a relocation
\* section, by the class dyn_cast finds in the target.
AttachReloc(o, idx, Target, kind) ==
  IF kind = "Regular"
    THEN [o |-> [o EXCEPT !.Heap[Target].RelocSections = Append(@, idx)],
          ret |-> nullptr]
  ELSE IF kind = "EHFrame"
    THEN IF o.Heap[Target].RelocSection # NoShdr
           THEN [o |-> Fatal(o, "multiple relocation sections to .eh_frame are not supported"),
                 ret |-> nullptr]
           ELSE [o |-> [o EXCEPT !.Heap[Target].RelocSection = idx],
                 ret |-> nullptr]
  ELSE [o |-> Fatal(o, "relocations pointing to SHF_MERGE are not supported"),
        ret |-> nullptr]

SectionKinds ==
  {"Regular", "EHFrame", "Merge", "MipsReginfo", "MipsOptions", "MipsAbiFlags"}

\* The SHT_REL/SHT_RELA case of createInputSection.  A target that has been
\* deleted is read after its lifetime ended: dyn_cast may find any class.
CreateRelocSection(o, idx, Sec) ==
  IF Config.Relocatable THEN {Allocate(o, "Regular", idx, Sec.name)}
  ELSE LET t == getRelocTarget(o, Sec) IN
    IF t.fatal # NoError THEN {[o |-> Fatal(o, t.fatal), ret |-> nullptr]}
    ELSE IF t.Target = nullptr THEN {[o |-> o, ret |-> nullptr]}
    ELSE IF o.Heap[t.Target].live
      THEN {AttachReloc(o, idx, t.Target, o.Heap[t.Target].kind)}
    ELSE {AttachReloc(o, idx, t.Target, k) : k \in SectionKinds}

\* createInputSection: the set of outcomes [o: the state after, ret: the
\* pointer returned].
createInputSection(o, idx, Sec) ==
  CASE Sec.sh_type = "SHT_ARM_ATTRIBUTES" -> {[o |-> o, ret |-> Discarded]}
    [] Sec.sh_type = "SHT_MIPS_REGINFO" ->
         {ResetOwner(o, "MipsReginfo", "MipsReginfo", idx, Sec.name)}
    [] Sec.sh_type = "SHT_MIPS_OPTIONS" ->
         {ResetOwner(o, "MipsOptions", "MipsOptions", idx, Sec.name)}
    [] Sec.sh_type = "SHT_MIPS_ABIFLAGS" ->
         {ResetOwner(o, "MipsAbiFlags", "MipsAbiFlags", idx, Sec.name)}
    [] Sec.sh_type \in {"SHT_RELA", "SHT_REL"} -> CreateRelocSection(o, idx, Sec)
    [] OTHER ->
         IF Sec.name = ".note.GNU-stack" THEN {[o |-> o, ret |-> Discarded]}
         ELSE IF Sec.name = ".note.GNU-split-stack"
           THEN {[o |-> [o EXCEPT !.HasError = TRUE], ret |-> Discarded]}
         ELSE IF Config.Strip # "None" /\ StartsWithDebug(Sec.name)
           THEN {[o |-> o, ret |-> Discarded]}
         ELSE IF Sec.name = ".eh_frame" /\ ~Config.Relocatable
           THEN {Allocate(o, "EHFrame", idx, Sec.name)}
         ELSE LET m == shouldMerge(Sec) IN
           IF m.fatal # NoError THEN {[o |-> Fatal(o, m.fatal), ret |-> nullptr]}
           ELSE IF m.val THEN {Allocate(o, "Merge", idx, Sec.name)}
           ELSE {Allocate(o, "Regular", idx, Sec.name)}

\* getShtGroupEntries: fatal unless the contents start with GRP_COMDAT.
getShtGroupEntries(Sec) ==
  IF Sec.contents = <<>> \/ Sec.contents[1] # GRP_COMDAT
    THEN [fatal |-> "unsupported SHT_GROUP format", Entries |-> <<>>]
    ELSE [fatal |-> NoError, Entries |-> Tail(Sec.contents)]

\* The loop over the entries of a duplicate group (lines 240-245).
RECURSIVE DiscardGroupMembers(_, _)
DiscardGroupMembers(o, Entries) ==
  IF Entries = <<>> THEN o
  ELSE IF Head(Entries) >= Size
    THEN Fatal(o, "invalid section index in group")
  ELSE DiscardGroupMembers([o EXCEPT !.Sections[Head(Entries)] = Discarded],
                           Tail(Entries))

\* GroupCase discarding only the members the loop has not reached yet.
GroupCaseForwardOnly(o, idx, Sec) ==
  LET o1 == [o EXCEPT !.Sections[idx] = Discarded,
                      !.ComdatGroups = @ \cup {Sec.sig}]
  IN  IF Sec.sig \notin o.ComdatGroups THEN o1
      ELSE LET g == getShtGroupEntries(Sec) IN
           IF g.fatal # NoError THEN Fatal(o1, g.fatal)
           ELSE DiscardGroupMembers(o1, SelectSeq(g.Entries, LAMBDA e : e > idx))

\* The SHT_GROUP case of initializeSections.
GroupCase(o, idx, Sec) ==
  LET o1 == [o EXCEPT !.Sections[idx] = Discarded,
                      !.ComdatGroups = @ \cup {Sec.sig}]
  IN  IF Sec.sig \notin o.ComdatGroups THEN o1
      ELSE LET g == getShtGroupEntries(Sec) IN
           IF g.fatal # NoError THEN Fatal(o1, g.fatal)
           ELSE DiscardGroupMembers(o1, g.Entries)

\* One iteration of the loop of initializeSections on header idx: the set
\* of outcomes [o: the state after, walk: the branch taken].
LoopBody(o, idx, Sec) ==
  IF o.Sections[idx] = Discarded THEN {[o |-> o, walk |-> "skipped"]}
  ELSE IF "SHF_EXCLUDE" \in Sec.sh_flags
    THEN {[o |-> [o EXCEPT !.Sections[idx] = Discarded], walk |-> "excluded"]}
  ELSE CASE Sec.sh_type = "SHT_GROUP" ->
              {[o |-> GroupCase(o, idx, Sec),
                walk |-> IF Sec.sig \in o.ComdatGroups THEN "duplicate group"
                         ELSE "first group"]}
         [] Sec.sh_type = "SHT_SYMTAB" ->
              {[o |-> [o EXCEPT !.Symtab = idx], walk |-> "switch"]}
         [] Sec.sh_type = "SHT_SYMTAB_SHNDX" ->
              {[o |-> [o EXCEPT !.SymtabSHNDX = idx], walk |-> "switch"]}
         [] Sec.sh_type \in {"SHT_STRTAB", "SHT_NULL"} ->
              {[o |-> o, walk |-> "switch"]}
         [] OTHER ->
              {[o |-> [c.o EXCEPT !.Sections[idx] = c.ret], walk |-> "switch"] :
                 c \in createInputSection(o, idx, Sec)}

(***************************************************************************)
(* The input files.  The headers of a file are drawn one by one as the     *)
(* loop of initializeSections reads them, from a family of headers that    *)
(* is fixed for a run: "kinds" has every section type and name under       *)
(* every configuration, "relocs" the relocation sections with every        *)
(* target index, "groups" the SHT_GROUP sections with every content,       *)
(* "symbols" a symbol table and the sections its symbols can name.         *)
(***************************************************************************)
Signatures == {"grp"}

TextShdr == PlainShdr("SHT_PROGBITS", {"SHF_ALLOC"}, 0, ".text")
ExcludedShdr == PlainShdr("SHT_PROGBITS", {"SHF_EXCLUDE"}, 0, ".text")
EhFrameShdr == PlainShdr("SHT_PROGBITS", {"SHF_ALLOC"}, 0, ".eh_frame")
StrtabShdr == PlainShdr("SHT_STRTAB", {}, 0, ".strtab")
MergeableShdr ==
  Shdr("SHT_PROGBITS", {"SHF_ALLOC", "SHF_MERGE", "SHF_STRINGS"}, 0,
       ".rodata.str", 2, 1, 1, <<>>, "")
GroupShdr(flags, contents, sig) ==
  Shdr("SHT_GROUP", flags, 1, ".group", 0, 4, 4, contents, sig)

KindShdrs ==
  {PlainShdr(t, {}, 0, "") :
     t \in {"SHT_NULL", "SHT_SYMTAB", "SHT_SYMTAB_SHNDX",
            "SHT_ARM_ATTRIBUTES", "SHT_MIPS_REGINFO", "SHT_MIPS_OPTIONS",
            "SHT_MIPS_ABIFLAGS"}}
  \cup {PlainShdr("SHT_PROGBITS", {}, 0, n) :
          n \in {".note.GNU-stack", ".note.GNU-split-stack", ".debug_info"}}
  \cup {TextShdr, ExcludedShdr, EhFrameShdr, StrtabShdr, MergeableShdr,
        PlainShdr("SHT_REL", {}, 0, ".rel"),
        Shdr("SHT_PROGBITS", {"SHF_MERGE", "SHF_WRITE"}, 0, ".data.m",
             2, 1, 1, <<>>, ""),
        Shdr("SHT_PROGBITS", {"SHF_MERGE"}, 0, ".rodata.cst", 4, 2, 4, <<>>, "")}

\* Relocation sections: every sh_info, one past the last section included.
RelocShdrs ==
  {PlainShdr("SHT_REL", {}, i, ".rel") : i \in 0..Size}
  \cup {PlainShdr("SHT_RELA", {}, i, ".rela") : i \in 0..(Size - 1)}
  \cup {PlainShdr("SHT_REL", {"SHF_EXCLUDE"}, i, ".rel") : i \in 0..(Size - 1)}

\* The entries of a group: none, any one index (one past the last section
\* included), or any two sections of the file.
GroupEntryLists ==
  {<<>>} \cup {<<i>> : i \in 0..Size}
         \cup {<<i, j>> : i \in 0..(Size - 1), j \in 0..(Size - 1)} 

GroupShdrs ==
  {GroupShdr({}, c, g) :
     c \in {<<>>, <<0>>, <<0, 1>>} \cup {<<GRP_COMDAT>> \o e : e \in GroupEntryLists},
     g \in Signatures}
  \cup {GroupShdr({"SHF_EXCLUDE"}, <<GRP_COMDAT, i>>, g) :
          i \in 0..(Size - 1), g \in Signatures}

InputClasses == {"kinds", "relocs", "groups"}

ObjHeaders(class) ==
  CASE class = "kinds" -> KindShdrs
    [] class = "relocs" ->
         RelocShdrs \cup {TextShdr, EhFrameShdr, MergeableShdr, StrtabShdr,
                          PlainShdr("SHT_MIPS_REGINFO", {}, 0, ".reginfo")}
                    \cup {GroupShdr({}, <<GRP_COMDAT, i>>, g) :
                            i \in 0..(Size - 1), g \in Signatures}
    [] class = "groups" ->
         GroupShdrs \cup {TextShdr, ExcludedShdr, StrtabShdr,
                          PlainShdr("SHT_REL", {}, 0, ".rel")}

\* The symbol table of a file, with every sh_info up to one past the
\* largest number of symbols.
SymtabShdrs == {PlainShdr("SHT_SYMTAB", {}, f, ".symtab") : f \in 0..(MaxSyms + 1)}

\* The headers a file of the class can have at index idx.  In the class
\* "symbols" the first section is the symbol table, or a string table.
ObjHeadersAt(class, idx) ==
  IF class = "symbols"
    THEN IF idx = 0 THEN SymtabShdrs \cup {StrtabShdr}
         ELSE {TextShdr,
               PlainShdr("SHT_MIPS_REGINFO", {}, 0, ".reginfo"),
               PlainShdr("SHT_SYMTAB_SHNDX", {}, 0, ".symtab_shndx")}
              \cup {GroupShdr({}, <<GRP_COMDAT, i>>, g) :
                      i \in 0..(Size - 1), g \in Signatures}
    ELSE ObjHeaders(class)

DefaultConfig == [Relocatable |-> FALSE, Optimize |-> 1, Strip |-> "None"]

Configs(class) ==
  IF class = "kinds"
    THEN {DefaultConfig,
          [DefaultConfig EXCEPT !.Relocatable = TRUE],
          [DefaultConfig EXCEPT !.Optimize = 0],
          [DefaultConfig EXCEPT !.Strip = "Debug"]}
    ELSE {DefaultConfig}

(***************************************************************************)
(* SpecObj: object files are parsed one after the other against one        *)
(* shared COMDAT set.                                                      *)
(***************************************************************************)
InitObj ==
  /\ InputClass \in InputClasses
  /\ Config \in Configs(InputClass)
  /\ ComdatGroups = {}
  /\ fileNo = 0
  /\ pc = "idle"
  /\ Shdrs = <<>>
  /\ Walk = <<>>
  /\ ComdatBefore = {}
  /\ I = -1
  /\ Sections = [i \in 0..(Size - 1) |-> nullptr]
  /\ Heap = <<>>
  /\ Symtab = NoShdr
  /\ SymtabSHNDX = NoShdr
  /\ MipsReginfo = nullptr
  /\ MipsOptions = nullptr
  /\ MipsAbiFlags = nullptr
  /\ HasError = FALSE
  /\ fatal = NoError
  /\ IdleRest

\* The state of a freshly constructed ObjectFile at the top of
\* initializeSections: Sections.resize(Size) and I = -1.
StartFile(from) ==
  /\ pc \in from
  /\ fatal = NoError
  /\ fileNo < NumFiles
  /\ fileNo' = fileNo + 1
  /\ pc' = "sections"
  /\ Shdrs' = <<>>
  /\ Walk' = <<>>
  /\ ComdatBefore' = ComdatGroups
  /\ I' = -1
  /\ Sections' = [i \in 0..(Size - 1) |-> nullptr]
  /\ Heap' = <<>>
  /\ Symtab' = NoShdr
  /\ SymtabSHNDX' = NoShdr
  /\ MipsReginfo' = nullptr
  /\ MipsOptions' = nullptr
  /\ MipsAbiFlags' = nullptr
  /\ NumSymbols' = 0
  /\ ElfSyms' = <<>>
  /\ SymbolBodies' = <<>>
  /\ Published' = <<>>
  /\ UNCHANGED <<Config, ComdatGroups, HasError, InputClass, fatal,
                 poolVars, lazyVars, binVars, soVars, moreVars>>

\* The next object file is constructed once the sections of the last one
\* are initialized.
ObjStartFile == StartFile({"idle", "parsed"})

\* One iteration of the loop of initializeSections.
InitializeSectionsStep ==
  /\ pc = "sections"
  /\ fatal = NoError
  /\ I + 1 < Size
  /\ \E Sec \in ObjHeadersAt(InputClass, I + 1) :
       \E r \in LoopBody(ObjState, I + 1, Sec) :
         /\ I' = I + 1
         /\ Shdrs' = Append(Shdrs, Sec)
         /\ Walk' = Append(Walk, r.walk)
         /\ Sections' = r.o.Sections
         /\ Heap' = r.o.Heap
         /\ ComdatGroups' = r.o.ComdatGroups
         /\ Symtab' = r.o.Symtab
         /\ SymtabSHNDX' = r.o.SymtabSHNDX
         /\ MipsReginfo' = r.o.MipsReginfo
         /\ MipsOptions' = r.o.MipsOptions
         /\ MipsAbiFlags' = r.o.MipsAbiFlags
         /\ HasError' = r.o.HasError
         /\ fatal' = r.o.fatal
         /\ pc' = IF r.o.fatal = NoError /\ I + 2 = Size THEN "parsed"
                  ELSE "sections"
  /\ UNCHANGED <<Config, fileNo, ComdatBefore, InputClass, poolVars, lazyVars, binVars, soVars, symVars, moreVars>>

NextObj == ObjStartFile \/ InitializeSectionsStep

SpecObj == InitObj /\ [][NextObj]_vars

(***************************************************************************)
(* Properties of the section pass (SpecObj).                               *)
(***************************************************************************)
Hdr(i) == Shdrs[i + 1]
WalkOf(i) == Walk[i + 1]
SectionIndices == 0..(Size - 1)
SectionsParsed == pc = "parsed"

\* The section indices a group lists (its contents after the flag word).
Members(i) == {Hdr(i).contents[k] : k \in 2..Len(Hdr(i).contents)}

\* Header i is a group the loop body handled as a group.
ProcessedGroup(i) ==
  /\ Hdr(i).sh_type = "SHT_GROUP"
  /\ "SHF_EXCLUDE" \notin Hdr(i).sh_flags
  /\ WalkOf(i) # "skipped"

\* Group i is the first processed group with its signature over all files.
FirstUse(i) ==
  /\ Hdr(i).sig \notin ComdatBefore
  /\ \A j \in 0..(i - 1) : ~(ProcessedGroup(j) /\ Hdr(j).sig = Hdr(i).sig)

DuplicateGroup(i) == ProcessedGroup(i) /\ ~FirstUse(i)

\* A header whose section is discarded whatever the groups say.
DiscardsItself(Sec) ==
  \/ "SHF_EXCLUDE" \in Sec.sh_flags
  \/ Sec.sh_type \in {"SHT_GROUP", "SHT_ARM_ATTRIBUTES"}
  \/ /\ Sec.sh_type = "SHT_PROGBITS"
     /\ \/ Sec.name \in {".note.GNU-stack", ".note.GNU-split-stack"}
        \/ Config.Strip # "None" /\ StartsWithDebug(Sec.name)

\* C1: once initializeSections has completed on a file, every section index
\* listed by a processed group whose signature was already in the COMDAT set
\* is the discarded sentinel, below or above the group; the members of the
\* group that brought the signature in are discarded only for a reason of
\* their own or by a duplicate group of the same file.
C1_ComdatDedup ==
  SectionsParsed =>
    \A g \in SectionIndices :
      ProcessedGroup(g) =>
        /\ ~FirstUse(g) => \A e \in Members(g) : Sections[e] = Discarded
        /\ FirstUse(g) =>
             \A m \in Members(g) \cap SectionIndices :
               Sections[m] = Discarded =>
                 \/ DiscardsItself(Hdr(m))
                 \/ \E d \in SectionIndices : DuplicateGroup(d) /\ m \in Members(d)

\* C1 witness: the second file has been parsed, and its group, whose
\* signature the first file brought in, lists one section below and one
\* above itself, both ordinary .text sections.
C1_Witness ==
  /\ SectionsParsed
  /\ fileNo = 2
  /\ \E g \in SectionIndices :
       /\ ProcessedGroup(g)
       /\ Hdr(g).sig \in ComdatBefore
       /\ \E lo \in Members(g), hi \in Members(g) :
            lo < g /\ g < hi /\ Hdr(lo) = TextShdr /\ Hdr(hi) = TextShdr

\* Sections[i] points to a live section object made for header i.
CreatedFor(i) ==
  /\ Sections[i] \in 1..Len(Heap)
  /\ Heap[Sections[i]].live
  /\ Heap[Sections[i]].Sec = i

\* C2: after initializeSections, Sections has one entry per section header,
\* each the discarded sentinel, null, or a section object created for that
\* header.
C2_Claim ==
  SectionsParsed =>
    /\ DOMAIN Sections = SectionIndices
    /\ \A i \in SectionIndices :
         Sections[i] = Discarded \/ Sections[i] = nullptr \/ CreatedFor(i)

IsReloc(i) == Hdr(i).sh_type \in {"SHT_REL", "SHT_RELA"}

\* Relocation section r names a live regular input section.
TargetsRegular(r) ==
  /\ IsReloc(r)
  /\ Hdr(r).sh_info \in SectionIndices
  /\ Sections[Hdr(r).sh_info] \in 1..Len(Heap)
  /\ Heap[Sections[Hdr(r).sh_info]].live
  /\ Heap[Sections[Hdr(r).sh_info]].kind = "Regular"

Occurrences(q, x) == Cardinality({k \in 1..Len(q) : q[k] = x})

RelocListOfTarget(r) == Heap[Sections[Hdr(r).sh_info]].RelocSections

\* C3 as claimed: in non-relocatable mode every relocation section naming a
\* regular section S is in S's list exactly once and has a null entry.
C3_Claim ==
  (SectionsParsed /\ ~Config.Relocatable) =>
    \A r \in SectionIndices :
      TargetsRegular(r) =>
        /\ Occurrences(RelocListOfTarget(r), r) = 1
        /\ Sections[r] = nullptr

\* C3 as amended: the same for every relocation section that reaches
\* createInputSection (no SHF_EXCLUDE, not discarded by an earlier duplicate
\* group); its entry is null, or the discarded sentinel when a later
\* duplicate group lists it.
C3_RelocListedOnce ==
  (SectionsParsed /\ ~Config.Relocatable) =>
    \A r \in SectionIndices :
      (TargetsRegular(r) /\ WalkOf(r) = "switch") =>
        /\ Occurrences(RelocListOfTarget(r), r) = 1
        /\ \/ Sections[r] = nullptr
           \/ /\ Sections[r] = Discarded
              /\ \E d \in (r + 1)..(Size - 1) : DuplicateGroup(d) /\ r \in Members(d)

\* C3 witness: a parsed file in which a relocation section was attached to
\* a regular section and then listed by a later duplicate group.
C3_Witness ==
  /\ SectionsParsed
  /\ ~Config.Relocatable
  /\ \E r \in SectionIndices :
       /\ TargetsRegular(r)
       /\ WalkOf(r) = "switch"
       /\ Occurrences(RelocListOfTarget(r), r) = 1
       /\ Sections[r] = Discarded

(***************************************************************************)
(* The initial values of the object-file component where it does not run.   *)
(***************************************************************************)
IdleObj ==
  /\ Config = DefaultConfig
  /\ InputClass = "none"
  /\ ComdatGroups = {}
  /\ fileNo = 0
  /\ Shdrs = <<>>
  /\ Walk = <<>>
  /\ ComdatBefore = {}
  /\ I = -1
  /\ Sections = [i \in 0..(Size - 1) |-> nullptr]
  /\ Heap = <<>>
  /\ Symtab = NoShdr
  /\ SymtabSHNDX = NoShdr
  /\ MipsReginfo = nullptr
  /\ MipsOptions = nullptr
  /\ MipsAbiFlags = nullptr
  /\ HasError = FALSE

(***************************************************************************)
(* SpecMerge: createInputSection on one section header that reaches the    *)
(* mergeability check, for every combination of the fields shouldMerge     *)
(* reads.                                                                  *)
(***************************************************************************)
MaxShSize == 4
MaxEntSize == 3
MaxAddrAlign == 4
OptLevels == {0, 1, 2}

MergeShdrs ==
  {Shdr("SHT_PROGBITS", f, 0, ".rodata", sz, es, al, <<>>, "") :
     f \in SUBSET {"SHF_WRITE", "SHF_MERGE", "SHF_STRINGS"},
     sz \in 0..MaxShSize, es \in 0..MaxEntSize, al \in 0..MaxAddrAlign}

InitMerge ==
  /\ InputClass = "merge"
  /\ Config \in [Relocatable : {FALSE}, Optimize : OptLevels, Strip : {"None"}]
  /\ ComdatGroups = {}
  /\ fileNo = 1
  /\ pc = "classify"
  /\ Shdrs = <<>>
  /\ Walk = <<>>
  /\ ComdatBefore = {}
  /\ I = -1
  /\ Sections = [i \in 0..(Size - 1) |-> nullptr]
  /\ Heap = <<>>
  /\ Symtab = NoShdr
  /\ SymtabSHNDX = NoShdr
  /\ MipsReginfo = nullptr
  /\ MipsOptions = nullptr
  /\ MipsAbiFlags = nullptr
  /\ HasError = FALSE
  /\ fatal = NoError
  /\ IdleRest

\* Sections[0] = createInputSection(Sec) for a header of the default case.
ClassifySection ==
  /\ pc = "classify"
  /\ \E Sec \in MergeShdrs :
       \E c \in createInputSection(ObjState, 0, Sec) :
         /\ Shdrs' = <<Sec>>
         /\ Walk' = <<"switch">>
         /\ I' = 0
         /\ Sections' = [c.o.Sections EXCEPT ![0] = c.ret]
         /\ Heap' = c.o.Heap
         /\ fatal' = c.o.fatal
         /\ pc' = "classified"
  /\ UNCHANGED <<Config, ComdatGroups, fileNo, ComdatBefore, Symtab,
                 SymtabSHNDX, MipsReginfo, MipsOptions, MipsAbiFlags,
                 HasError, InputClass, poolVars, lazyVars, binVars, soVars, symVars, moreVars>>

NextMerge == ClassifySection

SpecMerge == InitMerge /\ [][NextMerge]_vars

HasFlag(Sec, f) == f \in Sec.sh_flags

\* The section made for header 0 is a MergeInputSection.
ClassifiedMergeable ==
  /\ Sections[0] \in 1..Len(Heap)
  /\ Heap[Sections[0]].kind = "Merge"

\* The conditions the claim lists for a mergeable section.
MergeConditions(Sec) ==
  /\ HasFlag(Sec, "SHF_MERGE")
  /\ ~HasFlag(Sec, "SHF_WRITE")
  /\ Sec.sh_size > 0
  /\ Sec.sh_entsize > 0
  /\ Sec.sh_size % Sec.sh_entsize = 0
  /\ HasFlag(Sec, "SHF_STRINGS") \/ Sec.sh_addralign <= Sec.sh_entsize

\* C9 as claimed: a header that passes the check without a fatal error is
\* classified as mergeable iff the listed conditions hold.
C9_Claim ==
  (pc = "classified" /\ fatal = NoError) =>
    (ClassifiedMergeable <=> MergeConditions(Hdr(0)))

\* C9 as amended: the same, provided Config->Optimize is not 0; with
\* Optimize = 0 no section is classified as mergeable.
C9_MergeableIff ==
  (pc = "classified" /\ fatal = NoError) =>
    (ClassifiedMergeable <=> (Config.Optimize # 0 /\ MergeConditions(Hdr(0))))

\* C9 witness: a string section whose alignment exceeds its entry size is
\* classified as mergeable.
C9_Witness ==
  /\ pc = "classified"
  /\ fatal = NoError
  /\ ClassifiedMergeable
  /\ HasFlag(Hdr(0), "SHF_STRINGS")
  /\ Hdr(0).sh_addralign > Hdr(0).sh_entsize

\* C10: the check is fatal exactly when SHF_MERGE is set and either
\* SHF_WRITE is set or sh_size is not a multiple of a non-zero sh_entsize.
C10_Claim ==
  pc = "classified" =>
    (fatal # NoError <=>
       /\ HasFlag(Hdr(0), "SHF_MERGE")
       /\ \/ HasFlag(Hdr(0), "SHF_WRITE")
          \/ Hdr(0).sh_entsize # 0 /\ Hdr(0).sh_size % Hdr(0).sh_entsize # 0)

(***************************************************************************)
(* SpecPool: the registry of input files.  Every InputFile constructor     *)
(* appends the file to Pool; freePool deletes the files.                   *)
(***************************************************************************)
MaxPool == 3
FileKinds == {"ObjectKind", "SharedKind", "ArchiveKind", "BitcodeKind",
              "BinaryKind", "LazyObjectKind"}

\* A loop deleting Pool[0], Pool[1], ... in creation order.
RECURSIVE FreeLoopForward(_, _, _)
FreeLoopForward(P, i, log) ==
  IF i < Len(P) THEN FreeLoopForward(P, i + 1, Append(log, P[i + 1])) ELSE log

FreePoolForward(P) == FreeLoopForward(P, 0, <<>>)

\* for (int I = Pool.size() - 1; I >= 0; --I) delete Pool[I];
RECURSIVE FreeLoop(_, _, _)
FreeLoop(P, i, log) ==
  IF i >= 0 THEN FreeLoop(P, i - 1, Append(log, P[i + 1])) ELSE log

\* The files freePool deletes, in the order it deletes them.
freePool(P) == FreeLoop(P, Len(P) - 1, <<>>)

InitPool ==
  /\ pc = "ingest"
  /\ fatal = NoError
  /\ IdleObj
  /\ IdleLazy
  /\ IdleBin
  /\ IdleSo
  /\ IdlePool
  /\ IdleSym
  /\ IdleMore

\* InputFile(Kind K, MemoryBufferRef M): the new file joins the pool.
CreateFile ==
  /\ pc = "ingest"
  /\ Len(Pool) < MaxPool
  /\ \E k \in FileKinds :
       Pool' = Append(Pool, [id |-> Len(Pool) + 1, kind |-> k])
  /\ UNCHANGED <<objVars, Deleted, lazyVars, binVars, soVars, symVars, moreVars>>

FreePool ==
  /\ pc = "ingest"
  /\ Deleted' = freePool(Pool)
  /\ pc' = "freed"
  /\ UNCHANGED <<Config, ComdatGroups, fileNo, Shdrs, Walk, ComdatBefore, I,
                 Sections, Heap, Symtab, SymtabSHNDX, MipsReginfo,
                 MipsOptions, MipsAbiFlags, HasError, InputClass, fatal,
                 Pool, lazyVars, binVars, soVars, symVars, moreVars>>

NextPool == CreateFile \/ FreePool

SpecPool == InitPool /\ [][NextPool]_vars

\* C7: one freePool call deletes every file of the pool exactly once, and
\* of two files the one added later is deleted first.
C7_LifoDestruction ==
  pc = "freed" =>
    /\ Len(Deleted) = Len(Pool)
    /\ \A k \in 1..Len(Pool) : Occurrences(Deleted, Pool[k]) = 1
    /\ \A a \in 1..Len(Deleted), b \in 1..Len(Deleted) :
         Deleted[a].id < Deleted[b].id => b < a

\* C7 witness: a pool of three files has been freed.
C7_Witness == pc = "freed" /\ Len(Pool) = 3 /\ Len(Deleted) = 3

(***************************************************************************)
(* SpecLazy: buffers handed out on demand, by an archive for the member    *)
(* that defines a symbol and by a lazy object file for itself.             *)
(***************************************************************************)
MaxRequests == 3
ArchiveSymbols == {"foo", "bar", "baz"}
MemberOffsets == {64, 128}
NoMember == 0
LazyFiles == {"a.o", "b.o"}
EmptyBuffer == <<>>

\* The buffer of the archive member at offset off.
MemberBuffer(off) == <<"member", off>>

\* The buffer a lazy object file was constructed with.
LazyBuffer(f) == <<"file", f>>

\* getMember that hands the member out without recording its offset.
GetMemberNoInsert(seen, Sym) ==
  LET off == ArchiveIndex[Sym] IN
  IF off = NoMember
    THEN [fatal |-> "could not get the member for symbol", Seen |-> seen,
          Ret |-> EmptyBuffer]
  ELSE IF off \in seen
    THEN [fatal |-> NoError, Seen |-> seen, Ret |-> EmptyBuffer]
  ELSE [fatal |-> NoError, Seen |-> seen, Ret |-> MemberBuffer(off)]

\* ArchiveFile::getMember on the Seen set seen.
getMember(seen, Sym) ==
  LET off == ArchiveIndex[Sym] IN
  IF off = NoMember
    THEN [fatal |-> "could not get the member for symbol", Seen |-> seen,
          Ret |-> EmptyBuffer]
  ELSE IF off \in seen
    THEN [fatal |-> NoError, Seen |-> seen, Ret |-> EmptyBuffer]
  ELSE [fatal |-> NoError, Seen |-> seen \cup {off}, Ret |-> MemberBuffer(off)]

\* LazyObjectFile::getBuffer on the flag seen of the file with buffer MB.
getBuffer(seen, MB) ==
  IF seen THEN [Seen |-> TRUE, Ret |-> EmptyBuffer]
  ELSE [Seen |-> TRUE, Ret |-> MB]

InitLazy ==
  /\ pc = "resolve"
  /\ fatal = NoError
  /\ ArchiveIndex \in [ArchiveSymbols -> MemberOffsets \cup {NoMember}]
  /\ ArchiveSeen = {}
  /\ LazySeen = [f \in LazyFiles |-> FALSE]
  /\ Returned = <<>>
  /\ IdleObj
  /\ IdlePool
  /\ IdleBin
  /\ IdleSo
  /\ IdleSym
  /\ IdleMore

\* A lazy archive symbol is resolved: the archive is asked for its member.
GetMember ==
  /\ pc = "resolve"
  /\ fatal = NoError
  /\ Len(Returned) < MaxRequests
  /\ \E Sym \in ArchiveSymbols :
       LET r == getMember(ArchiveSeen, Sym) IN
       /\ ArchiveSeen' = r.Seen
       /\ fatal' = r.fatal
       /\ Returned' = IF r.fatal = NoError
                        THEN Append(Returned, [key |-> <<"member", ArchiveIndex[Sym]>>,
                                               backing |-> MemberBuffer(ArchiveIndex[Sym]),
                                               buf |-> r.Ret])
                        ELSE Returned
  /\ UNCHANGED <<Config, ComdatGroups, fileNo, pc, Shdrs, Walk, ComdatBefore,
                 I, Sections, Heap, Symtab, SymtabSHNDX, MipsReginfo,
                 MipsOptions, MipsAbiFlags, HasError, InputClass,
                 ArchiveIndex, LazySeen, poolVars, binVars, soVars, symVars, moreVars>>

\* A lazy object symbol is resolved: the file is asked for its buffer.
GetBuffer ==
  /\ pc = "resolve"
  /\ fatal = NoError
  /\ Len(Returned) < MaxRequests
  /\ \E f \in LazyFiles :
       LET r == getBuffer(LazySeen[f], LazyBuffer(f)) IN
       /\ LazySeen' = [LazySeen EXCEPT ![f] = r.Seen]
       /\ Returned' = Append(Returned, [key |-> <<"file", f>>,
                                        backing |-> LazyBuffer(f),
                                        buf |-> r.Ret])
  /\ UNCHANGED <<objVars, ArchiveIndex, ArchiveSeen, poolVars, binVars, soVars, symVars, moreVars>>

NextLazy == GetMember \/ GetBuffer

SpecLazy == InitLazy /\ [][NextLazy]_vars

\* C5: of the requests made for one key (an archive member offset, or a
\* lazy object file), the first returns the backing buffer and every later
\* one returns an empty buffer.
C5_ExtractedOnce ==
  \A k \in 1..Len(Returned) :
    Returned[k].buf =
      IF \E j \in 1..(k - 1) : Returned[j].key = Returned[k].key
        THEN EmptyBuffer
        ELSE Returned[k].backing

\* C5 witness: a member is requested through two different symbols, the
\* second request returns an empty buffer, and so does a repeated request
\* for a lazy object file.
C5_Witness ==
  /\ Len(Returned) = 3
  /\ \E a \in ArchiveSymbols, b \in ArchiveSymbols :
       /\ a # b
       /\ ArchiveIndex[a] = ArchiveIndex[b]
       /\ Returned[1].key = <<"member", ArchiveIndex[a]>>
       /\ Returned[2].key = Returned[1].key
  /\ Returned[1].buf # EmptyBuffer
  /\ Returned[2].buf = EmptyBuffer
  /\ Returned[3].key[1] = "file"
  /\ Returned[3].buf # EmptyBuffer

(***************************************************************************)
(* SpecBin: BinaryFile::createELF wraps a blob in a relocatable ELF file.  *)
(* Strings are sequences of one-character strings.                         *)
(***************************************************************************)
MaxPathLen == 3
MaxBlobSize == 2
SHN_ABS == 65521
PathChars == {"a", "Z", "7", "/", ".", "_", "-"}
AlnumChars ==
  {"0", "1", "2", "3", "4", "5", "6", "7", "8", "9",
   "a", "b", "c", "d", "e", "f", "g", "h", "i", "j", "k", "l", "m",
   "n", "o", "p", "q", "r", "s", "t", "u", "v", "w", "x", "y", "z",
   "A", "B", "C", "D", "E", "F", "G", "H", "I", "J", "K", "L", "M",
   "N", "O", "P", "Q", "R", "S", "T", "U", "V", "W", "X", "Y", "Z"}

\* The sequences over S of length at most n.
SeqsUpTo(S, n) == UNION {[1..k -> S] : k \in 0..n}

isalnum(C) == C \in AlnumChars

BinaryPrefix == <<"_", "b", "i", "n", "a", "r", "y", "_">>
StartSuffix == <<"_", "s", "t", "a", "r", "t">>
EndSuffix == <<"_", "e", "n", "d">>
SizeSuffix == <<"_", "s", "i", "z", "e">>

\* ELFCreator::addSection: a new section with a zeroed header.
addSection(ELF, Name) ==
  [ELF EXCEPT !.Sections =
     Append(@, [Name |-> Name, sh_flags |-> {}, sh_size |-> 0,
                sh_type |-> "SHT_NULL", sh_addralign |-> 0])]

\* ELFCreator::addSymbol: a new symbol with zeroed fields.
addSymbol(ELF, Name) ==
  [ELF EXCEPT !.Symbols =
     Append(@, [Name |-> Name, Binding |-> "STB_LOCAL", Type |-> "STT_NOTYPE",
                st_shndx |-> 0, st_value |-> 0])]

\* A transform that replaces the path separators only.
ReplaceSeparators(Filepath) ==
  [k \in 1..Len(Filepath) |-> IF Filepath[k] = "/" THEN "_" ELSE Filepath[k]]

\* std::transform(..., [](char C) { return isalnum(C) ? C : '_'; })
RECURSIVE Transform(_, _)
Transform(Filepath, k) ==
  IF k > Len(Filepath) THEN Filepath
  ELSE Transform([Filepath EXCEPT ![k] = IF isalnum(@) THEN @ ELSE "_"], k + 1)

Sanitize(Filepath) == Transform(Filepath, 1)

\* BinaryFile::createELF on the buffer MB.
createELF(MB) ==
  LET E0 == addSection([Sections |-> <<>>, Symbols |-> <<>>], <<".", "d", "a", "t", "a">>)
      DataSec == Len(E0.Sections)
      E1 == [E0 EXCEPT !.Sections[DataSec] =
               [@ EXCEPT !.sh_flags = {"SHF_ALLOC"}, !.sh_size = MB.Size,
                         !.sh_type = "SHT_PROGBITS", !.sh_addralign = 8]]
      Filepath == Sanitize(MB.Identifier)
      E2 == addSymbol(E1, BinaryPrefix \o Filepath \o StartSuffix)
      SSym == Len(E2.Symbols)
      E3 == [E2 EXCEPT !.Symbols[SSym] =
               [@ EXCEPT !.Binding = "STB_GLOBAL", !.Type = "STT_OBJECT",
                         !.st_shndx = DataSec]]
      E4 == addSymbol(E3, BinaryPrefix \o Filepath \o EndSuffix)
      ESym == Len(E4.Symbols)
      E5 == [E4 EXCEPT !.Symbols[ESym] =
               [@ EXCEPT !.Binding = "STB_GLOBAL", !.Type = "STT_OBJECT",
                         !.st_shndx = DataSec, !.st_value = MB.Size]]
      E6 == addSymbol(E5, BinaryPrefix \o Filepath \o SizeSuffix)
      SZSym == Len(E6.Symbols)
  IN [E6 EXCEPT !.Symbols[SZSym] =
        [@ EXCEPT !.Binding = "STB_GLOBAL", !.Type = "STT_OBJECT",
                  !.st_shndx = SHN_ABS, !.st_value = MB.Size]]

InitBin ==
  /\ pc = "binary"
  /\ fatal = NoError
  /\ BinMB \in [Identifier : SeqsUpTo(PathChars, MaxPathLen), Size : 0..MaxBlobSize]
  /\ ELFData = <<>>
  /\ IdleObj
  /\ IdlePool
  /\ IdleLazy
  /\ IdleSo
  /\ IdleSym
  /\ IdleMore

CreateELF ==
  /\ pc = "binary"
  /\ ELFData' = createELF(BinMB)
  /\ pc' = "created"
  /\ UNCHANGED <<Config, ComdatGroups, fileNo, Shdrs, Walk, ComdatBefore, I,
                 Sections, Heap, Symtab, SymtabSHNDX, MipsReginfo,
                 MipsOptions, MipsAbiFlags, HasError, InputClass, fatal,
                 BinMB, poolVars, lazyVars, soVars, symVars, moreVars>>

NextBin == CreateELF

SpecBin == InitBin /\ [][NextBin]_vars

\* The path with every non-alphanumeric character replaced by '_'.
San(path) ==
  [k \in 1..Len(path) |-> IF path[k] \in AlnumChars THEN path[k] ELSE "_"]

\* The symbol of the created file with the given name, value and section.
HasSymbol(name, value, shndx) ==
  \E k \in 1..Len(ELFData.Symbols) :
    /\ ELFData.Symbols[k].Name = name
    /\ ELFData.Symbols[k].Binding = "STB_GLOBAL"
    /\ ELFData.Symbols[k].st_value = value
    /\ ELFData.Symbols[k].st_shndx = shndx

\* The index of the created file's .data section.
DataIndex ==
  CHOOSE k \in 1..Len(ELFData.Sections) :
    ELFData.Sections[k].Name = <<".", "d", "a", "t", "a">>

\* C6: for a blob of n bytes with path p the created file defines exactly
\* three global symbols, _binary_<san>_start = 0 and _binary_<san>_end = n
\* in .data and the absolute _binary_<san>_size = n, where <san> is p with
\* every non-alphanumeric character replaced by '_'.
C6_BinarySymbols ==
  pc = "created" =>
    LET san == San(BinMB.Identifier)
        n == BinMB.Size
    IN /\ Len(ELFData.Symbols) = 3
       /\ Len(ELFData.Sections) = 1
       /\ ELFData.Sections[1].sh_size = n
       /\ HasSymbol(BinaryPrefix \o san \o StartSuffix, 0, DataIndex)
       /\ HasSymbol(BinaryPrefix \o san \o EndSuffix, n, DataIndex)
       /\ HasSymbol(BinaryPrefix \o san \o SizeSuffix, n, SHN_ABS)
       /\ Len(san) = Len(BinMB.Identifier)
       /\ \A k \in 1..Len(san) :
            isalnum(BinMB.Identifier[k]) => san[k] = BinMB.Identifier[k]

\* C6 witness: a non-empty blob whose path has alphanumeric characters, a
\* separator and a dot has been wrapped.
C6_Witness ==
  /\ pc = "created"
  /\ BinMB.Size > 0
  /\ BinMB.Identifier = <<"a", "/", ".">>
  /\ HasSymbol(BinaryPrefix \o <<"a", "_", "_">> \o EndSuffix, BinMB.Size, 1)

(***************************************************************************)
(* SpecSo: SharedFile::parseSoName.  A shared object is its path, its      *)
(* section headers (a SHT_DYNAMIC header carries the dynamic array it      *)
(* points to) and the string table of its dynamic symbol table.            *)
(***************************************************************************)
MaxDyn == 2
MaxStrTab == 3
MaxSoPath == 3
NUL == "\\0"
SoPathChars == {"/", "l"}
StrTabChars == {NUL, "s"}

SoHdr(type, dyn) == [sh_type |-> type, dyn |-> dyn]

DynEntries == [d_tag : {"DT_SONAME", "DT_NEEDED"}, d_val : 0..(MaxStrTab + 1)]
DynArrays == SeqsUpTo(DynEntries, MaxDyn)

\* Paths that name a file.
SoPaths ==
  {path \in SeqsUpTo(SoPathChars, MaxSoPath) :
     path # <<>> /\ path[Len(path)] # "/"}

\* String tables as the ELF library accepts them: not empty, NUL-terminated.
StringTables ==
  {t \in SeqsUpTo(StrTabChars, MaxStrTab) : t # <<>> /\ t[Len(t)] = NUL}

SoSectionLists ==
  {<<a, b>> :
     a \in {SoHdr("SHT_DYNSYM", <<>>), SoHdr("SHT_PROGBITS", <<>>),
            SoHdr("SHT_DYNAMIC", <<>>),
            SoHdr("SHT_DYNAMIC", <<[d_tag |-> "DT_SONAME", d_val |-> 0]>>)},
     b \in {SoHdr("SHT_PROGBITS", <<>>)}
             \cup {SoHdr("SHT_DYNAMIC", d) : d \in DynArrays}}

SoFiles == [Name : SoPaths, Sections : SoSectionLists, DynStr : StringTables]

\* sys::path::filename: the last component of the path.
RECURSIVE PathFilename(_)
PathFilename(path) ==
  IF path = <<>> THEN <<>>
  ELSE IF path[Len(path)] = "/" THEN <<>>
  ELSE Append(PathFilename(SubSeq(path, 1, Len(path) - 1)), path[Len(path)])

\* StringRef(Data + Val): the characters from offset Val up to the next NUL.
RECURSIVE CString(_, _)
CString(Data, Val) ==
  IF Data[Val + 1] = NUL THEN <<>>
  ELSE <<Data[Val + 1]>> \o CString(Data, Val + 1)

\* The section walk of parseSoName: the last header of each type wins.
RECURSIVE SoSectionLoop(_, _, _)
SoSectionLoop(Secs, k, found) ==
  IF k > Len(Secs) THEN found
  ELSE SoSectionLoop(Secs, k + 1,
         CASE Secs[k].sh_type = "SHT_DYNSYM" -> [found EXCEPT !.Symtab = k]
           [] Secs[k].sh_type = "SHT_DYNAMIC" -> [found EXCEPT !.DynamicSec = k]
           [] OTHER -> found)

\* A loop over the dynamic array in which a later DT_SONAME replaces an
\* earlier one.
RECURSIVE DynLoopLastWins(_, _, _, _)
DynLoopLastWins(Dyn, k, Table, r) ==
  IF k > Len(Dyn) THEN r
  ELSE IF Dyn[k].d_tag = "DT_SONAME"
    THEN IF Dyn[k].d_val >= Len(Table)
           THEN [r EXCEPT !.fatal = "invalid DT_SONAME entry"]
           ELSE DynLoopLastWins(Dyn, k + 1, Table,
                                [r EXCEPT !.SoName = CString(Table, Dyn[k].d_val)])
  ELSE DynLoopLastWins(Dyn, k + 1, Table, r)

\* The loop of parseSoName over the dynamic array, from entry k on.
RECURSIVE DynLoop(_, _, _, _)
DynLoop(Dyn, k, Table, r) ==
  IF k > Len(Dyn) THEN r
  ELSE IF Dyn[k].d_tag = "DT_SONAME"
    THEN IF Dyn[k].d_val >= Len(Table)
           THEN [r EXCEPT !.fatal = "invalid DT_SONAME entry"]
           ELSE [r EXCEPT !.SoName = CString(Table, Dyn[k].d_val)]
  ELSE DynLoop(Dyn, k + 1, Table, r)

\* SharedFile::parseSoName on the file F.
parseSoName(F) ==
  LET found == SoSectionLoop(F.Sections, 1, [Symtab |-> NoShdr, DynamicSec |-> NoShdr])
      Table == IF found.Symtab = NoShdr THEN <<>> ELSE F.DynStr
      r == [Symtab |-> found.Symtab, StringTable |-> Table,
            SoName |-> PathFilename(F.Name), fatal |-> NoError]
  IN IF found.DynamicSec = NoShdr THEN r
     ELSE DynLoop(F.Sections[found.DynamicSec].dyn, 1, Table, r)

InitSo ==
  /\ pc = "shared"
  /\ fatal = NoError
  /\ SoFile \in SoFiles
  /\ StringTable = <<>>
  /\ SoName = <<>>
  /\ IdleObj
  /\ IdlePool
  /\ IdleLazy
  /\ IdleBin
  /\ IdleSym
  /\ IdleMore

ParseSoName ==
  /\ pc = "shared"
  /\ LET r == parseSoName(SoFile) IN
       /\ Symtab' = r.Symtab
       /\ StringTable' = r.StringTable
       /\ SoName' = r.SoName
       /\ fatal' = r.fatal
  /\ pc' = "soname"
  /\ UNCHANGED <<Config, ComdatGroups, fileNo, Shdrs, Walk, ComdatBefore, I,
                 Sections, Heap, SymtabSHNDX, MipsReginfo, MipsOptions,
                 MipsAbiFlags, HasError, InputClass, SoFile, poolVars,
                 lazyVars, binVars, symVars, moreVars>>

NextSo == ParseSoName

SpecSo == InitSo /\ [][NextSo]_vars

\* The dynamic array of the file: that of its last SHT_DYNAMIC section.
DynamicArray ==
  LET D == {k \in 1..Len(SoFile.Sections) : SoFile.Sections[k].sh_type = "SHT_DYNAMIC"}
  IN IF D = {} THEN <<>>
     ELSE SoFile.Sections[CHOOSE k \in D : \A j \in D : j <= k].dyn

SonameEntries ==
  {k \in 1..Len(DynamicArray) : DynamicArray[k].d_tag = "DT_SONAME"}

FirstSoname == CHOOSE k \in SonameEntries : \A j \in SonameEntries : k <= j

\* The file's basename: what follows the last separator of its path.
Basename ==
  LET path == SoFile.Name
      seps == {k \in 1..Len(path) : path[k] = "/"}
      last == IF seps = {} THEN 0 ELSE CHOOSE k \in seps : \A j \in seps : j <= k
  IN SubSeq(path, last + 1, Len(path))

\* The NUL-terminated string of the string table at offset v.
StringAt(v) ==
  LET end == CHOOSE e \in (v + 1)..Len(StringTable) :
               /\ StringTable[e] = NUL
               /\ \A j \in (v + 1)..(e - 1) : StringTable[j] # NUL
  IN SubSeq(StringTable, v + 1, end - 1)

\* C4: after parseSoName the soname is the basename when the dynamic
\* array has no DT_SONAME entry; otherwise the first DT_SONAME entry
\* decides: its string when its value is below the string-table size, a
\* fatal "invalid DT_SONAME entry" when not.
C4_SoName ==
  pc = "soname" =>
    IF SonameEntries = {}
      THEN fatal = NoError /\ SoName = Basename
      ELSE LET v == DynamicArray[FirstSoname].d_val IN
           IF v < Len(StringTable)
             THEN fatal = NoError /\ SoName = StringAt(v)
             ELSE fatal = "invalid DT_SONAME entry"

\* C4 witness: the first DT_SONAME entry is in range and names a non-empty
\* string different from the basename, a later one is out of range.
C4_Witness ==
  /\ pc = "soname"
  /\ fatal = NoError
  /\ Len(DynamicArray) = 2
  /\ SonameEntries = {1, 2}
  /\ DynamicArray[1].d_val < Len(StringTable)
  /\ DynamicArray[2].d_val >= Len(StringTable)
  /\ SoName = <<"s">>
  /\ SoName # Basename

\* C4 second witness: a DT_SONAME entry whose value equals the size of the
\* string table is fatal.
C4_WitnessFatal ==
  /\ pc = "soname"
  /\ fatal = "invalid DT_SONAME entry"
  /\ DynamicArray[FirstSoname].d_val = Len(StringTable)
  /\ Len(StringTable) > 0

(***************************************************************************)
(* SpecSym: ObjectFile::parse, the section pass followed by                *)
(* initializeSymbols.  The entries of the symbol table are drawn one by    *)
(* one as the loop reads them.                                             *)
(***************************************************************************)
SHN_UNDEF == 0
SHN_LORESERVE == 65280
SHN_COMMON == 65522
SHN_XINDEX == 65535

Bindings == {"STB_LOCAL", "STB_GLOBAL", "STB_WEAK", "STB_GNU_UNIQUE", "STB_LOOS"}

ElfSym(binding, shndx, xindex, size, value) ==
  [Binding |-> binding, st_shndx |-> shndx, xindex |-> xindex,
   st_size |-> size, st_value |-> value]

\* The symbol table entries: every binding with every kind of section
\* index, one past the last section included.  xindex is the entry of the
\* SHT_SYMTAB_SHNDX table that belongs to the symbol.
ElfSymbols ==
  {ElfSym(b, x, 0, 0, 0) :
     b \in Bindings, x \in {SHN_UNDEF, SHN_ABS} \cup 1..Size}
  \cup {ElfSym(b, SHN_COMMON, 0, 2, 4) : b \in Bindings}
  \cup {ElfSym(b, SHN_XINDEX, x, 0, 0) : b \in Bindings, x \in 1..Size}

\* ELFFileBase::getElfSymbols for a symbol table of n entries: the range
\* [Begin, End) of entries it returns.
getElfSymbols(n, OnlyGlobals) ==
  IF Symtab = NoShdr THEN [fatal |-> NoError, Begin |-> 0, End |-> 0]
  ELSE LET FirstNonLocal == Shdrs[Symtab + 1].sh_info IN
       IF FirstNonLocal > n
         THEN [fatal |-> "invalid sh_info in symbol table", Begin |-> 0, End |-> 0]
       ELSE IF OnlyGlobals THEN [fatal |-> NoError, Begin |-> FirstNonLocal, End |-> n]
       ELSE [fatal |-> NoError, Begin |-> 0, End |-> n]

\* ELFFileBase::getSectionIndex
getSectionIndex(Sym) ==
  IF Sym.st_shndx = SHN_XINDEX THEN Sym.xindex
  ELSE IF Sym.st_shndx >= SHN_LORESERVE THEN 0
  ELSE Sym.st_shndx

\* What a read of a deleted section object's Repl field can yield.
DanglingReads == {nullptr, Discarded} \cup 1..Len(Heap)

\* ObjectFile::getSection: the possible outcomes.
getSection(Sym) ==
  LET Index == getSectionIndex(Sym) IN
  IF Index = 0 THEN {[fatal |-> NoError, ret |-> nullptr]}
  ELSE IF Index >= Size THEN {[fatal |-> "invalid section index", ret |-> nullptr]}
  ELSE LET S == Sections[Index] IN
       IF S = nullptr \/ S = Discarded THEN {[fatal |-> NoError, ret |-> S]}
       ELSE IF Heap[S].live THEN {[fatal |-> NoError, ret |-> Heap[S].Repl]}
       ELSE {[fatal |-> NoError, ret |-> q] : q \in DanglingReads}

SymbolBody(kind, Sym, Sec, size, align) ==
  [kind |-> kind, Binding |-> Sym.Binding, Section |-> Sec,
   Size |-> size, Alignment |-> align]

\* A symbol made for the file alone.
LocalBody(b) == [fatal |-> NoError, body |-> b, calls |-> <<>>]

\* A symbol handed to the global symbol table; Symtab::add* return the
\* symbol, whose body is the one the call describes.
PublishedBody(call, b) ==
  [fatal |-> NoError, body |-> b, calls |-> <<[call |-> call, body |-> b]>>]

\* ObjectFile::createSymbolBody with Sec = getSection(*Sym) already read.
CreateBody(Sym, Sec) ==
  IF Sym.Binding = "STB_LOCAL"
    THEN IF Sym.st_shndx = SHN_UNDEF
           THEN LocalBody(SymbolBody("Undefined", Sym, nullptr, 0, 0))
           ELSE LocalBody(SymbolBody("DefinedRegular", Sym, Sec, 0, 0))
  ELSE IF Sym.st_shndx = SHN_UNDEF
    THEN PublishedBody("addUndefined", SymbolBody("Undefined", Sym, nullptr, 0, 0))
  ELSE IF Sym.st_shndx = SHN_COMMON
    THEN PublishedBody("addCommon",
                       SymbolBody("DefinedCommon", Sym, nullptr,
                                  Sym.st_size, Sym.st_value))
  ELSE IF Sym.Binding \notin {"STB_GLOBAL", "STB_WEAK", "STB_GNU_UNIQUE"}
    THEN [fatal |-> "unexpected binding", body |-> <<>>, calls |-> <<>>]
  ELSE IF Sec = Discarded
    THEN PublishedBody("addUndefined", SymbolBody("Undefined", Sym, nullptr, 0, 0))
  ELSE PublishedBody("addRegular", SymbolBody("DefinedRegular", Sym, Sec, 0, 0))

\* ObjectFile::createSymbolBody: the possible outcomes.
createSymbolBody(Sym) ==
  {IF s.fatal # NoError THEN [fatal |-> s.fatal, body |-> <<>>, calls |-> <<>>]
   ELSE CreateBody(Sym, s.ret) : s \in getSection(Sym)}

InitSym ==
  /\ InputClass = "symbols"
  /\ Config = DefaultConfig
  /\ ComdatGroups = {}
  /\ fileNo = 0
  /\ pc = "idle"
  /\ Shdrs = <<>>
  /\ Walk = <<>>
  /\ ComdatBefore = {}
  /\ I = -1
  /\ Sections = [i \in 0..(Size - 1) |-> nullptr]
  /\ Heap = <<>>
  /\ Symtab = NoShdr
  /\ SymtabSHNDX = NoShdr
  /\ MipsReginfo = nullptr
  /\ MipsOptions = nullptr
  /\ MipsAbiFlags = nullptr
  /\ HasError = FALSE
  /\ fatal = NoError
  /\ IdleRest

\* The next object file is constructed once the last one is parsed.
ParseNextFile == StartFile({"idle", "symbolsDone"})

\* initializeSymbols up to its loop: the symbol table has n entries.
InitializeSymbols ==
  /\ pc = "parsed"
  /\ fatal = NoError
  /\ \E n \in 0..MaxSyms :
       LET Syms == getElfSymbols(n, FALSE) IN
       /\ Symtab = NoShdr => n = 0
       /\ NumSymbols' = Syms.End - Syms.Begin
       /\ fatal' = Syms.fatal
       /\ pc' = IF Syms.fatal = NoError /\ Syms.End = Syms.Begin
                  THEN "symbolsDone" ELSE "symbols"
  /\ UNCHANGED <<Config, ComdatGroups, fileNo, Shdrs, Walk, ComdatBefore, I,
                 Sections, Heap, Symtab, SymtabSHNDX, MipsReginfo,
                 MipsOptions, MipsAbiFlags, HasError, InputClass, ElfSyms,
                 SymbolBodies, Published, poolVars, lazyVars, binVars, soVars, moreVars>>

\* One iteration of the loop of initializeSymbols:
\* SymbolBodies.push_back(createSymbolBody(&Sym)).
CreateSymbolBodyStep ==
  /\ pc = "symbols"
  /\ fatal = NoError
  /\ Len(SymbolBodies) < NumSymbols
  /\ \E Sym \in ElfSymbols :
       /\ Sym.st_shndx = SHN_XINDEX => SymtabSHNDX # NoShdr
       /\ \E r \in createSymbolBody(Sym) :
            /\ ElfSyms' = Append(ElfSyms, Sym)
            /\ fatal' = r.fatal
            /\ SymbolBodies' = IF r.fatal = NoError
                                 THEN Append(SymbolBodies, r.body)
                                 ELSE SymbolBodies
            /\ Published' = Published \o
                 [k \in 1..Len(r.calls) |->
                    [sym |-> Len(ElfSyms) + 1, call |-> r.calls[k].call,
                     body |-> r.calls[k].body]]
            /\ pc' = IF r.fatal = NoError /\ Len(SymbolBodies) + 1 = NumSymbols
                       THEN "symbolsDone" ELSE "symbols"
  /\ UNCHANGED <<Config, ComdatGroups, fileNo, Shdrs, Walk, ComdatBefore, I,
                 Sections, Heap, Symtab, SymtabSHNDX, MipsReginfo,
                 MipsOptions, MipsAbiFlags, HasError, InputClass, NumSymbols,
                 poolVars, lazyVars, binVars, soVars, moreVars>>

NextSym ==
  \/ ParseNextFile
  \/ InitializeSectionsStep
  \/ InitializeSymbols
  \/ CreateSymbolBodyStep

SpecSym == InitSym /\ [][NextSym]_vars

NonLocalBindings == {"STB_GLOBAL", "STB_WEAK", "STB_GNU_UNIQUE"}

\* The calls made on the global symbol table for symbol k of the file.
PublishedFor(k) == {j \in 1..Len(Published) : Published[j].sym = k}

\* The entry of Sections the symbol names: null for index 0 and for the
\* reserved indexes.
SectionOf(Sym) ==
  IF getSectionIndex(Sym) = 0 THEN nullptr ELSE Sections[getSectionIndex(Sym)]

\* C8: for every non-local symbol for which createSymbolBody returned,
\* exactly one symbol is published: Undefined for SHN_UNDEF, Common with
\* size st_size and alignment st_value for SHN_COMMON, and for any other
\* index Undefined when the symbol's section is the discarded sentinel
\* and DefinedRegular otherwise.
C8_Claim ==
  \A k \in 1..Len(SymbolBodies) :
    ElfSyms[k].Binding \in NonLocalBindings =>
      /\ Cardinality(PublishedFor(k)) = 1
      /\ \A j \in PublishedFor(k) :
           LET b == Published[j].body IN
           CASE ElfSyms[k].st_shndx = SHN_UNDEF -> b.kind = "Undefined"
             [] ElfSyms[k].st_shndx = SHN_COMMON ->
                  /\ b.kind = "DefinedCommon"
                  /\ b.Size = ElfSyms[k].st_size
                  /\ b.Alignment = ElfSyms[k].st_value
             [] OTHER ->
                  b.kind = IF SectionOf(ElfSyms[k]) = Discarded
                             THEN "Undefined" ELSE "DefinedRegular"

\* A symbol read so far names a section object that has been deleted.
NamesDeletedSection ==
  \E k \in 1..Len(SymbolBodies) :
    /\ SectionOf(ElfSyms[k]) \in 1..Len(Heap)
    /\ ~Heap[SectionOf(ElfSyms[k])].live

\* The classification of C8 holds as long as no symbol names a deleted
\* section object.
SymbolKindsOfLiveSections == NamesDeletedSection \/ C8_Claim

(***************************************************************************)
(* SpecLazySyms: LazyObjectFile::parse on an ELF object, the discovery of  *)
(* the symbols that the file would define if it were extracted.            *)
(***************************************************************************)
LazySymNames == {"f", "g"}

\* The entries of the symbol table: a name, defined in section 1 or not.
LazyElfSyms == [Name : LazySymNames, st_shndx : {SHN_UNDEF, 1}]

\* The object behind the lazy file: whether it has a SHT_SYMTAB section,
\* that section's sh_info and its entries.
LazyObjects ==
  [HasSymtab : BOOLEAN, sh_info : 0..(MaxSyms + 1),
   Syms : SeqsUpTo(LazyElfSyms, MaxSyms)]

\* for (Sym : Syms) if (Sym.st_shndx != SHN_UNDEF) V.push_back(name)
RECURSIVE DefinedNames(_)
DefinedNames(Syms) ==
  IF Syms = <<>> THEN <<>>
  ELSE (IF Syms[1].st_shndx # SHN_UNDEF THEN <<Syms[1].Name>> ELSE <<>>)
       \o DefinedNames(Tail(Syms))

LazyOutcome(msg, crashed, V) == [fatal |-> msg, crashed |-> crashed, V |-> V]

\* Syms.slice(FirstNonLocal) past the end of the table: the length wraps
\* around and the loop reads memory that is not the symbol table, until
\* an unreadable address stops the process or a name that cannot be read
\* makes check() fatal.
SliceBeyondEnd ==
  {LazyOutcome(NoError, TRUE, <<>>),
   LazyOutcome("invalid symbol name", FALSE, <<>>)}

\* LazyObjectFile::getElfSymbols: the possible outcomes.
lazyGetElfSymbols(MB) ==
  IF ~MB.HasSymtab THEN {LazyOutcome(NoError, FALSE, <<>>)}
  ELSE LET FirstNonLocal == MB.sh_info IN
       IF FirstNonLocal > Len(MB.Syms) THEN SliceBeyondEnd
       ELSE {LazyOutcome(NoError, FALSE,
                         DefinedNames(SubSeq(MB.Syms, FirstNonLocal + 1, Len(MB.Syms))))}

InitLazySyms ==
  /\ pc = "lazy"
  /\ fatal = NoError
  /\ LazyMB \in LazyObjects
  /\ IdleObj
  /\ IdlePool
  /\ IdleLazy
  /\ IdleBin
  /\ IdleSo
  /\ IdleSym
  /\ IdleBc
  /\ IdleDso
  /\ IdleRanges

\* LazyObjectFile::parse: every symbol found is added as a lazy symbol.
LazyParse ==
  /\ pc = "lazy"
  /\ \E r \in lazyGetElfSymbols(LazyMB) :
       /\ fatal' = r.fatal
       /\ pc' = IF r.crashed THEN "crashed" ELSE "lazyParsed"
       /\ Published' = IF r.fatal = NoError /\ ~r.crashed
                         THEN [k \in 1..Len(r.V) |->
                                 [call |-> "addLazyObject", name |-> r.V[k]]]
                         ELSE <<>>
  /\ UNCHANGED <<Config, ComdatGroups, fileNo, Shdrs, Walk, ComdatBefore, I,
                 Sections, Heap, Symtab, SymtabSHNDX, MipsReginfo,
                 MipsOptions, MipsAbiFlags, HasError, InputClass, NumSymbols,
                 ElfSyms, SymbolBodies, poolVars, lazyVars, binVars, soVars,
                 moreVars>>

NextLazySyms == LazyParse

SpecLazySyms == InitLazySyms /\ [][NextLazySyms]_vars

\* C11: when the symbol table read has an sh_info above its number of
\* symbols, the file is rejected with a fatal error and none of its
\* symbols is published; an sh_info equal to the number of symbols is
\* accepted.  Stated for the lazy-object symbol discovery.
C11_Claim ==
  (pc \in {"lazyParsed", "crashed"} /\ LazyMB.HasSymtab) =>
    /\ LazyMB.sh_info > Len(LazyMB.Syms) =>
         (pc = "lazyParsed" /\ fatal # NoError /\ Published = <<>>)
    /\ LazyMB.sh_info = Len(LazyMB.Syms) =>
         (pc = "lazyParsed" /\ fatal = NoError)

\* The object parse obeys C11: initializeSymbols is fatal before the first
\* symbol is created, and only when sh_info exceeds the number of symbols.
ObjectParseChecksShInfo ==
  /\ fatal = "invalid sh_info in symbol table" =>
       (SymbolBodies = <<>> /\ Published = <<>>)
  /\ (pc \in {"symbols", "symbolsDone"} /\ fatal # "invalid sh_info in symbol table"
      /\ Symtab # NoShdr) =>
       Shdrs[Symtab + 1].sh_info <= NumSymbols

(***************************************************************************)
(* Further properties of the section pass (SpecObj).                       *)
(***************************************************************************)
\* The headers read so far, by index.
ReadIndices == 0..(Len(Shdrs) - 1)

\* Sections[e] points to the exception-frame section made for header e.
IsEhFrame(e) ==
  /\ Sections[e] \in 1..Len(Heap)
  /\ Heap[Sections[e]].kind = "EHFrame"
  /\ Heap[Sections[e]].Sec = e

\* The relocation sections read so far that reached createInputSection
\* and name section e.
RelocsTo(e) ==
  {r \in ReadIndices :
     /\ Hdr(r).sh_type \in {"SHT_REL", "SHT_RELA"}
     /\ WalkOf(r) = "switch"
     /\ Hdr(r).sh_info = e}

MultipleEhRelocs == "multiple relocation sections to .eh_frame are not supported"

ReadsRelocSection ==
  /\ pc = "sections"
  /\ I' = I + 1
  /\ Len(Shdrs') = Len(Shdrs) + 1
  /\ ~Config.Relocatable
  /\ Shdrs'[I' + 1].sh_type \in {"SHT_REL", "SHT_RELA"}
  /\ Walk'[I' + 1] = "switch"
  /\ Shdrs'[I' + 1].sh_info < Size

\* The entry of the section the relocation section names, before the step.
TargetEntry == Sections[Shdrs'[I' + 1].sh_info]

\* The step drops the relocation section it reads.
DropsRelocSection ==
  /\ fatal' = NoError
  /\ Sections' = [Sections EXCEPT ![I'] = nullptr]
  /\ Heap' = Heap

\* C15 as claimed: a relocation section whose target entry is the
\* discarded sentinel or null is dropped: its entry is null, nothing is
\* attached to any section and there is no fatal error.
C15_Claim ==
  [][(ReadsRelocSection /\ TargetEntry \in {Discarded, nullptr})
       => DropsRelocSection]_vars

\* C15 as amended: a relocation section whose target entry is the
\* discarded sentinel is dropped; one whose target entry is null rejects
\* the file with "unsupported relocation reference", and nothing is
\* attached to any section either.
C15_DiscardedTargetDropped ==
  [][ReadsRelocSection =>
       /\ TargetEntry = Discarded => DropsRelocSection
       /\ TargetEntry = nullptr =>
            /\ fatal' = "unsupported relocation reference"
            /\ Heap' = Heap
            /\ Sections' = Sections]_vars

\* C15 witness: the relocation section just read names a discarded
\* section, its own entry is null and the parse goes on.
C15_Witness ==
  /\ pc \in {"sections", "parsed"}
  /\ I \in ReadIndices
  /\ ~Config.Relocatable
  /\ IsReloc(I)
  /\ WalkOf(I) = "switch"
  /\ Hdr(I).sh_info \in ReadIndices
  /\ Hdr(I).sh_info < I
  /\ Sections[Hdr(I).sh_info] = Discarded
  /\ Sections[I] = nullptr
  /\ fatal = NoError
  /\ \A h \in 1..Len(Heap) :
       Heap[h].RelocSections = <<>> /\ Heap[h].RelocSection = NoShdr

\* C16: every SHT_GROUP section the loop processes is validated, whether
\* or not its signature was in the COMDAT set: contents that are empty or
\* do not start with GRP_COMDAT are fatal "unsupported SHT_GROUP format",
\* a listed index at or beyond the number of sections is fatal "invalid
\* section index in group".
C16_Claim ==
  \A i \in ReadIndices :
    ProcessedGroup(i) =>
      IF Hdr(i).contents = <<>> \/ Hdr(i).contents[1] # GRP_COMDAT
        THEN fatal = "unsupported SHT_GROUP format"
        ELSE (\E x \in Members(i) : x >= Size) =>
               fatal = "invalid section index in group"

\* The validation of C16 is made for the groups whose signature is
\* already in the COMDAT set.
DuplicateGroupsValidated ==
  \A i \in ReadIndices :
    DuplicateGroup(i) =>
      IF Hdr(i).contents = <<>> \/ Hdr(i).contents[1] # GRP_COMDAT
        THEN fatal = "unsupported SHT_GROUP format"
        ELSE (\E x \in Members(i) : x >= Size) =>
               fatal = "invalid section index in group"

(***************************************************************************)
(* SpecBitcode: BitcodeFile::parse on the symbol view the bitcode reader   *)
(* exposes, with a COMDAT set that earlier files may have filled.          *)
(***************************************************************************)
MaxBcSyms == 2

ComdatNames == {"c1", "c2"}
BcSymNames == {"f", "g"}
NoComdat == "no comdat"
SymbolFlags == {"SF_Weak", "SF_Undefined", "SF_Common"}

\* lto::InputFile::Symbol: getName(), getComdat() and getFlags().
BcSymbol == [Name : BcSymNames, Comdat : ComdatNames \cup {NoComdat},
             Flags : SUBSET SymbolFlags]

\* lto::InputFile: the COMDAT symbol table (a map, so its names are
\* distinct) and the symbols, each in one of the file's COMDATs or in none.
BitcodeFiles ==
  {f \in [Comdats : SUBSET ComdatNames, Symbols : SeqsUpTo(BcSymbol, MaxBcSyms)] :
     \A k \in 1..Len(f.Symbols) :
       f.Symbols[k].Comdat \in f.Comdats \cup {NoComdat}}

BcBinding(Flags) == IF "SF_Weak" \in Flags THEN "STB_WEAK" ELSE "STB_GLOBAL"

BcCall(call, ObjSym) ==
  [call |-> call, name |-> ObjSym.Name, Binding |-> BcBinding(ObjSym.Flags)]

\* createBitcodeSymbol with the common test ahead of the COMDAT test.
CreateBitcodeSymbolCommonFirst(Kept, ObjSym) ==
  IF "SF_Common" \in ObjSym.Flags THEN BcCall("addCommon", ObjSym)
  ELSE IF ObjSym.Comdat # NoComdat /\ ObjSym.Comdat \notin Kept
    THEN BcCall("addUndefined", ObjSym)
  ELSE IF "SF_Undefined" \in ObjSym.Flags THEN BcCall("addUndefined", ObjSym)
  ELSE BcCall("addBitcode", ObjSym)

\* createBitcodeSymbol: the call it makes on the symbol table.
createBitcodeSymbol(Kept, ObjSym) ==
  IF ObjSym.Comdat # NoComdat /\ ObjSym.Comdat \notin Kept
    THEN BcCall("addUndefined", ObjSym)
  ELSE IF "SF_Undefined" \in ObjSym.Flags THEN BcCall("addUndefined", ObjSym)
  ELSE IF "SF_Common" \in ObjSym.Flags THEN BcCall("addCommon", ObjSym)
  ELSE BcCall("addBitcode", ObjSym)

InitBitcode ==
  /\ pc = "bitcode"
  /\ fatal = NoError
  /\ BcObj \in BitcodeFiles
  /\ KeptComdats = {}
  /\ BcSymbols = <<>>
  /\ Config = DefaultConfig
  /\ InputClass = "none"
  /\ ComdatGroups \in SUBSET ComdatNames
  /\ ComdatBefore = ComdatGroups
  /\ fileNo = 0
  /\ Shdrs = <<>>
  /\ Walk = <<>>
  /\ I = -1
  /\ Sections = [i \in 0..(Size - 1) |-> nullptr]
  /\ Heap = <<>>
  /\ Symtab = NoShdr
  /\ SymtabSHNDX = NoShdr
  /\ MipsReginfo = nullptr
  /\ MipsOptions = nullptr
  /\ MipsAbiFlags = nullptr
  /\ HasError = FALSE
  /\ IdlePool
  /\ IdleLazy
  /\ IdleBin
  /\ IdleSo
  /\ IdleSym
  /\ IdleLazyObj
  /\ IdleDso
  /\ IdleRanges

\* The first loop of BitcodeFile::parse: a COMDAT is kept when its name is
\* new to ComdatGroups.
ParseComdatTable ==
  /\ pc = "bitcode"
  /\ ComdatGroups' = ComdatGroups \cup BcObj.Comdats
  /\ KeptComdats' = {c \in BcObj.Comdats : c \notin ComdatGroups}
  /\ pc' = IF BcObj.Symbols = <<>> THEN "bitcodeParsed" ELSE "bitcodeSymbols"
  /\ UNCHANGED <<Config, fileNo, Shdrs, Walk, ComdatBefore, I, Sections, Heap,
                 Symtab, SymtabSHNDX, MipsReginfo, MipsOptions, MipsAbiFlags,
                 HasError, InputClass, fatal, poolVars, lazyVars, binVars,
                 soVars, symVars, LazyMB, BcObj, BcSymbols, dsoVars, SymRanges>>

\* One iteration of the second loop: Symbols.push_back(createBitcodeSymbol).
CreateBitcodeSymbol ==
  /\ pc = "bitcodeSymbols"
  /\ LET ObjSym == BcObj.Symbols[Len(BcSymbols) + 1]
         call == createBitcodeSymbol(KeptComdats, ObjSym) IN
       /\ Published' = Append(Published, call)
       /\ BcSymbols' = Append(BcSymbols, call)
  /\ pc' = IF Len(BcSymbols) + 1 = Len(BcObj.Symbols)
             THEN "bitcodeParsed" ELSE "bitcodeSymbols"
  /\ UNCHANGED <<Config, ComdatGroups, fileNo, Shdrs, Walk, ComdatBefore, I,
                 Sections, Heap, Symtab, SymtabSHNDX, MipsReginfo, MipsOptions,
                 MipsAbiFlags, HasError, InputClass, fatal, NumSymbols, ElfSyms,
                 SymbolBodies, poolVars, lazyVars, binVars, soVars, LazyMB,
                 BcObj, KeptComdats, dsoVars, SymRanges>>

NextBitcode == ParseComdatTable \/ CreateBitcodeSymbol

SpecBitcode == InitBitcode /\ [][NextBitcode]_vars

\* The COMDAT of the symbol was dropped: its name was in the cross-file set
\* before this file's parse began.
InDroppedComdat(ObjSym) ==
  ObjSym.Comdat # NoComdat /\ ObjSym.Comdat \in ComdatBefore

\* C13: every symbol the reader exposes is published exactly once and in
\* order: as Undefined when its COMDAT was not newly inserted by this file,
\* else Undefined when flagged undefined, else Common when flagged common,
\* else Bitcode; its binding is weak iff the weak flag is set.
C13_BitcodePriority ==
  /\ Published = BcSymbols
  /\ Len(BcSymbols) <= Len(BcObj.Symbols)
  /\ pc = "bitcodeParsed" => Len(BcSymbols) = Len(BcObj.Symbols)
  /\ pc # "bitcode" =>
       KeptComdats = {c \in BcObj.Comdats : c \notin ComdatBefore}
  /\ \A k \in 1..Len(BcSymbols) :
       LET ObjSym == BcObj.Symbols[k]
           b == BcSymbols[k] IN
         /\ b.name = ObjSym.Name
         /\ b.Binding = "STB_WEAK" <=> "SF_Weak" \in ObjSym.Flags
         /\ b.Binding = "STB_GLOBAL" <=> "SF_Weak" \notin ObjSym.Flags
         /\ b.call = CASE InDroppedComdat(ObjSym) -> "addUndefined"
                       [] "SF_Undefined" \in ObjSym.Flags -> "addUndefined"
                       [] "SF_Common" \in ObjSym.Flags -> "addCommon"
                       [] OTHER -> "addBitcode"

\* A weak common symbol of a dropped COMDAT has been published as a weak
\* Undefined, after a symbol of a kept COMDAT was published as Common.
C13_Witness ==
  /\ pc = "bitcodeParsed"
  /\ \E k \in 1..Len(BcSymbols) :
       /\ InDroppedComdat(BcObj.Symbols[k])
       /\ {"SF_Weak", "SF_Common"} \subseteq BcObj.Symbols[k].Flags
       /\ BcSymbols[k].call = "addUndefined"
       /\ BcSymbols[k].Binding = "STB_WEAK"
  /\ \E k \in 1..Len(BcSymbols) :
       /\ BcObj.Symbols[k].Comdat \in KeptComdats
       /\ BcSymbols[k].call = "addCommon"

(***************************************************************************)
(* SpecRest: SharedFile::parseRest on a shared object whose sections       *)
(* parseSoName has found: the dynamic symbol table, the versym section and *)
(* the verdef section.  The versym section has one entry per entry of the  *)
(* symbol table and the verdef chain has sh_info entries.                  *)
(***************************************************************************)
MaxDsoSyms == 2
MaxVerdefs == 2
MaxVdNdx == 3

VER_NDX_LOCAL == 0
VER_NDX_GLOBAL == 1
VERSYM_HIDDEN == 32768

\* A pointer read from past the end of a vector that is no Elf_Verdef.
WildPointer == -2
Crash == -3

\* vs_index: local, global, three version identifiers, a hidden version.
VersymValues == {VER_NDX_LOCAL, VER_NDX_GLOBAL, 2, 3, VERSYM_HIDDEN + 2}

\* Elf_Sym of the dynamic symbol table: undefined, or defined in section 1.
DsoSyms == [st_shndx : {SHN_UNDEF, 1}]

\* The shared object: whether it has a SHT_DYNSYM section, its symbols,
\* whether VersymSec is set and its vs_index entries, whether VerdefSec is
\* set, its sh_info and the vd_ndx of each entry of its chain.
SharedObjects ==
  UNION {{o \in [HasDynsym : BOOLEAN,
                 Syms : [1..n -> DsoSyms],
                 HasVersym : BOOLEAN,
                 vs_index : [1..n -> VersymValues],
                 HasVerdef : BOOLEAN,
                 sh_info : {c},
                 vd_ndx : [1..c -> 1..MaxVdNdx]] :
            /\ ~o.HasDynsym => n = 0
            /\ ~o.HasVersym => \A k \in 1..n : o.vs_index[k] = VER_NDX_LOCAL
            /\ ~o.HasVerdef => c = 0} :
         n \in 0..MaxDsoSyms, c \in 0..MaxVerdefs}

\* VersymIndex & VERSYM_HIDDEN
HiddenBit(VersymIndex) == (VersymIndex \div VERSYM_HIDDEN) % 2 = 1

\* std::vector::resize to a larger size: the new elements are null.
Resize(V, size) ==
  IF size <= Len(V) THEN SubSeq(V, 1, size)
  ELSE V \o [k \in 1..(size - Len(V)) |-> nullptr]

\* The loop of parseVerdefs from chain entry k on; vector element n is
\* V[n + 1] and the pointer to the k-th Elf_Verdef is k.
RECURSIVE VerdefLoop(_, _, _)
VerdefLoop(vd_ndx, k, V) ==
  IF k > Len(vd_ndx) THEN V
  ELSE LET VerdefIndex == vd_ndx[k]
           Grown == IF Len(V) <= VerdefIndex THEN Resize(V, VerdefIndex + 1) ELSE V IN
       VerdefLoop(vd_ndx, k + 1, [Grown EXCEPT ![VerdefIndex + 1] = k])

\* parseVerdefs: the vector it returns.
parseVerdefs(MB) ==
  IF ~MB.HasVersym \/ ~MB.HasVerdef THEN <<nullptr>>
  ELSE VerdefLoop(MB.vd_ndx, 1, Resize(<<nullptr>>, MB.sh_info + 1))

\* The Versym pointer after parseVerdefs is non-null.
VersymSet(MB) == MB.HasVersym /\ MB.HasVerdef

\* Verdefs[VersymIndex]: the element, or for an index past the end whatever
\* the memory behind the vector holds, or a stop on an unreadable address.
VerdefsAt(V, VersymIndex, MB) ==
  IF VersymIndex < Len(V) THEN {V[VersymIndex + 1]}
  ELSE {nullptr, WildPointer, Crash} \cup 1..MB.sh_info

InitRest ==
  /\ pc = "dso"
  /\ fatal = NoError
  /\ DsoMB \in SharedObjects
  /\ Verdefs = <<>>
  /\ Undefs = <<>>
  /\ \E f \in 0..(MaxDsoSyms + 1) :
       /\ Shdrs = IF DsoMB.HasDynsym
                    THEN <<PlainShdr("SHT_DYNSYM", {}, f, ".dynsym")>> ELSE <<>>
       /\ f <= Len(DsoMB.Syms) + 1
       /\ ~DsoMB.HasDynsym => f = 0
  /\ Symtab = IF DsoMB.HasDynsym THEN 0 ELSE NoShdr
  /\ Config = DefaultConfig
  /\ InputClass = "none"
  /\ ComdatGroups = {}
  /\ ComdatBefore = {}
  /\ fileNo = 0
  /\ Walk = <<>>
  /\ I = -1
  /\ Sections = [i \in 0..(Size - 1) |-> nullptr]
  /\ Heap = <<>>
  /\ SymtabSHNDX = NoShdr
  /\ MipsReginfo = nullptr
  /\ MipsOptions = nullptr
  /\ MipsAbiFlags = nullptr
  /\ HasError = FALSE
  /\ IdlePool
  /\ IdleLazy
  /\ IdleBin
  /\ IdleSo
  /\ IdleSym
  /\ IdleLazyObj
  /\ IdleBc
  /\ IdleRanges

\* parseRest up to its loop: parseVerdefs, which reads Symtab->sh_info when
\* both version sections are present, and getElfSymbols(true).
ParseRestBegin ==
  /\ pc = "dso"
  /\ IF VersymSet(DsoMB) /\ Symtab = NoShdr
       THEN /\ pc' = "crashed"
            /\ UNCHANGED <<Verdefs, NumSymbols, fatal>>
       ELSE LET Syms == getElfSymbols(Len(DsoMB.Syms), TRUE) IN
            /\ Verdefs' = parseVerdefs(DsoMB)
            /\ fatal' = Syms.fatal
            /\ NumSymbols' = Syms.End - Syms.Begin
            /\ pc' = IF Syms.fatal = NoError /\ Syms.End > Syms.Begin
                       THEN "dsoSymbols" ELSE "dsoParsed"
  /\ UNCHANGED <<Config, ComdatGroups, fileNo, Shdrs, Walk, ComdatBefore, I,
                 Sections, Heap, Symtab, SymtabSHNDX, MipsReginfo, MipsOptions,
                 MipsAbiFlags, HasError, InputClass, ElfSyms, SymbolBodies,
                 Published, poolVars, lazyVars, binVars, soVars, LazyMB, bcVars,
                 DsoMB, Undefs, SymRanges>>

\* One iteration of the loop of parseRest, on the symbol of index idx.
ParseRestStep ==
  /\ pc = "dsoSymbols"
  /\ LET idx == Shdrs[Symtab + 1].sh_info + Len(ElfSyms)
         Sym == DsoMB.Syms[idx + 1]
         VersymIndex == IF VersymSet(DsoMB) THEN DsoMB.vs_index[idx + 1] ELSE 0
         Last == Len(ElfSyms) + 1 = NumSymbols IN
       /\ ElfSyms' = Append(ElfSyms, Sym)
       /\ IF Sym.st_shndx = SHN_UNDEF
            THEN /\ Undefs' = Append(Undefs, idx)
                 /\ pc' = IF Last THEN "dsoParsed" ELSE "dsoSymbols"
                 /\ UNCHANGED Published
          ELSE IF VersymSet(DsoMB)
                  /\ (VersymIndex = VER_NDX_LOCAL \/ HiddenBit(VersymIndex))
            THEN /\ pc' = IF Last THEN "dsoParsed" ELSE "dsoSymbols"
                 /\ UNCHANGED <<Undefs, Published>>
          ELSE \E V \in (IF VersymIndex = VER_NDX_GLOBAL THEN {nullptr}
                         ELSE VerdefsAt(Verdefs, VersymIndex, DsoMB)) :
                 /\ UNCHANGED Undefs
                 /\ IF V = Crash
                      THEN pc' = "crashed" /\ UNCHANGED Published
                      ELSE /\ pc' = IF Last THEN "dsoParsed" ELSE "dsoSymbols"
                           /\ Published' = Append(Published,
                                [call |-> "addShared", Sym |-> idx, Verdef |-> V])
  /\ UNCHANGED <<Config, ComdatGroups, fileNo, Shdrs, Walk, ComdatBefore, I,
                 Sections, Heap, Symtab, SymtabSHNDX, MipsReginfo, MipsOptions,
                 MipsAbiFlags, HasError, InputClass, fatal, NumSymbols,
                 SymbolBodies, poolVars, lazyVars, binVars, soVars, LazyMB,
                 bcVars, DsoMB, Verdefs, SymRanges>>

NextRest == ParseRestBegin \/ ParseRestStep

SpecRest == InitRest /\ [][NextRest]_vars

\* The non-local symbols of the shared object, by index.
FirstNonLocalDso == IF Symtab = NoShdr THEN 0 ELSE Shdrs[Symtab + 1].sh_info
NonLocalDso == FirstNonLocalDso..(Len(DsoMB.Syms) - 1)
VisitedDso == FirstNonLocalDso..(FirstNonLocalDso + Len(ElfSyms) - 1)

\* parseRest obeys C11: it is fatal before any symbol is recorded exactly
\* when sh_info exceeds the number of symbols.
SharedParseChecksShInfo ==
  (pc # "dso" /\ Symtab # NoShdr) =>
    /\ FirstNonLocalDso > Len(DsoMB.Syms) =>
         (fatal = "invalid sh_info in symbol table" /\ Published = <<>> /\ Undefs = <<>>)
    /\ FirstNonLocalDso <= Len(DsoMB.Syms) => fatal = NoError

\* The version index parseRest pairs with the symbol of index idx, and
\* whether the symbol is undefined or skipped.
VersymIndexOf(idx) == IF VersymSet(DsoMB) THEN DsoMB.vs_index[idx + 1] ELSE 0
UndefinedDso(idx) == DsoMB.Syms[idx + 1].st_shndx = SHN_UNDEF
SkippedDso(idx) ==
  /\ VersymSet(DsoMB)
  /\ VersymIndexOf(idx) = VER_NDX_LOCAL \/ HiddenBit(VersymIndexOf(idx))
LooksUpVerdef(idx) ==
  /\ ~UndefinedDso(idx)
  /\ ~SkippedDso(idx)
  /\ VersymIndexOf(idx) # VER_NDX_GLOBAL

\* The length C19 gives for the array of parseVerdefs.
MaxOf(S) == CHOOSE x \in S : \A y \in S : y <= x
VerdefsLength ==
  IF VersymSet(DsoMB)
    THEN MaxOf({DsoMB.sh_info + 1} \cup {DsoMB.vd_ndx[k] + 1 : k \in 1..DsoMB.sh_info})
    ELSE 1

\* The array of parseVerdefs has the length C19 gives.
VerdefsHasLength ==
  (pc \in {"dsoSymbols", "dsoParsed"} /\ Verdefs # <<>>) => Len(Verdefs) = VerdefsLength

\* C19: every version index parseRest looks up in the array of parseVerdefs
\* is smaller than the array's length.
C19_Claim ==
  Verdefs # <<>> =>
    /\ Len(Verdefs) = VerdefsLength
    /\ \A idx \in VisitedDso : LooksUpVerdef(idx) => VersymIndexOf(idx) < Len(Verdefs)

\* The verdef recorded for a version index: the last entry of the chain
\* with that vd_ndx, null when there is none.
RecordedVerdef(v) ==
  LET ks == {k \in 1..DsoMB.sh_info : DsoMB.vd_ndx[k] = v} IN
  IF VersymSet(DsoMB) /\ ks # {} THEN MaxOf(ks) ELSE nullptr

PublishedDso == {idx \in VisitedDso : ~UndefinedDso(idx) /\ ~SkippedDso(idx)}
UndefsDso == {idx \in VisitedDso : UndefinedDso(idx)}
Rank(idx, S) == Cardinality({j \in S : j <= idx})

\* C14: parseRest visits the non-local symbols in index order, each with
\* its own versym entry; the undefined ones go to Undefs and are not
\* published; defined ones that are local or hidden are skipped; every other
\* one is published once, with a null verdef for VER_NDX_GLOBAL and for a
\* file without version information, else with the verdef recorded for its
\* version index.
C14_Claim ==
  (pc \in {"dsoSymbols", "dsoParsed", "crashed"} /\ fatal = NoError
   /\ Symtab # NoShdr) =>
    /\ pc # "crashed"
    /\ pc = "dsoParsed" => VisitedDso = NonLocalDso
    /\ Len(Undefs) = Cardinality(UndefsDso)
    /\ \A idx \in UndefsDso : Undefs[Rank(idx, UndefsDso)] = idx
    /\ Len(Published) = Cardinality(PublishedDso)
    /\ \A idx \in PublishedDso :
         Published[Rank(idx, PublishedDso)] =
           [call |-> "addShared", Sym |-> idx,
            Verdef |-> IF VersymIndexOf(idx) = VER_NDX_GLOBAL \/ ~VersymSet(DsoMB)
                         THEN nullptr
                         ELSE RecordedVerdef(VersymIndexOf(idx))]

\* A version index at or past the end of the array has been looked up.
ReadPastVerdefs ==
  \E idx \in VisitedDso : LooksUpVerdef(idx) /\ VersymIndexOf(idx) >= Len(Verdefs)

\* Both claims hold as long as no lookup is past the end of the array.
SharedSymbolsOfInRangeVersions == ReadPastVerdefs \/ (C14_Claim /\ C19_Claim)

(***************************************************************************)
(* Further properties of the symbol pass (SpecSym).                        *)
(***************************************************************************)
KnownBindings == {"STB_LOCAL", "STB_GLOBAL", "STB_WEAK", "STB_GNU_UNIQUE"}

\* C17: a symbol whose binding is none of local, global, weak and unique
\* makes the file fatal with "unexpected binding" and nothing is published
\* for it, whatever its st_shndx.
C17_Claim ==
  \A k \in 1..Len(ElfSyms) :
    ElfSyms[k].Binding \notin KnownBindings =>
      /\ fatal = "unexpected binding"
      /\ PublishedFor(k) = {}
      /\ Len(SymbolBodies) < k

\* The binding is tested for symbols of a section or reserved index other
\* than SHN_UNDEF and SHN_COMMON only, and after the section was looked up.
UnknownBindingOfDefinedSymbol ==
  \A k \in 1..Len(ElfSyms) :
    (ElfSyms[k].Binding \notin KnownBindings
     /\ ElfSyms[k].st_shndx \notin {SHN_UNDEF, SHN_COMMON}) =>
      /\ fatal \in {"unexpected binding", "invalid section index"}
      /\ PublishedFor(k) = {}
      /\ Len(SymbolBodies) < k

(***************************************************************************)
(* SpecRanges: the symbol pass followed by the accessors of the parsed     *)
(* file, getLocalSymbols, getNonLocalSymbols and getSymbols.               *)
(***************************************************************************)
\* a - b in unsigned arithmetic of any width above the model's numbers:
\* the difference, or 2^w - value when the subtraction wraps around.
WrapSub(a, b) ==
  IF a >= b THEN [wrapped |-> FALSE, value |-> a - b]
  ELSE [wrapped |-> TRUE, value |-> b - a]

NoWrap(x) == [wrapped |-> FALSE, value |-> x]

\* ArrayRef::slice(N, M) of an array of size elements: the range, and
\* whether it lies within the array (what assert(N + M <= size()) tests).
Slice(size, N, M) ==
  [Begin |-> N, Length |-> M,
   InBounds |-> ~M.wrapped /\ N + M.value <= size]

\* ArrayRef::slice(N): slice(N, size() - N)
SliceFrom(size, N) == Slice(size, N, WrapSub(size, N))

Accessors == {"getLocalSymbols", "getNonLocalSymbols", "getSymbols"}

\* ObjectFile::getNonLocalSymbols, getLocalSymbols and getSymbols.
GetSymbolRange(accessor) ==
  LET size == Len(SymbolBodies) IN
  IF Symtab = NoShdr THEN Slice(size, 0, NoWrap(size))
  ELSE LET FirstNonLocal == Shdrs[Symtab + 1].sh_info IN
       CASE accessor = "getNonLocalSymbols" -> SliceFrom(size, FirstNonLocal)
         [] accessor = "getLocalSymbols" -> Slice(size, 1, WrapSub(FirstNonLocal, 1))
         [] accessor = "getSymbols" -> SliceFrom(size, 1)

\* An accessor is called on the file parsed last, once parsing is over.  A
\* slice that is not within the array stops a build with assertions and is
\* returned by one without.
CallAccessor ==
  /\ pc = "symbolsDone"
  /\ fatal = NoError
  /\ \E accessor \in Accessors, Asserts \in BOOLEAN :
       LET r == GetSymbolRange(accessor) IN
       /\ SymRanges' = <<[accessor |-> accessor, range |-> r]>>
       /\ pc' = IF Asserts /\ ~r.InBounds THEN "crashed" ELSE "accessed"
  /\ UNCHANGED <<Config, ComdatGroups, fileNo, Shdrs, Walk, ComdatBefore, I,
                 Sections, Heap, Symtab, SymtabSHNDX, MipsReginfo, MipsOptions,
                 MipsAbiFlags, HasError, InputClass, fatal, poolVars, lazyVars,
                 binVars, soVars, symVars, LazyMB, bcVars, dsoVars>>

NextRanges == NextSym \/ CallAccessor

SpecRanges == InitSym /\ [][NextRanges]_vars

\* The accessor called on the file, and what it returned.
Called(accessor) ==
  /\ SymRanges # <<>>
  /\ SymRanges[1].accessor = accessor
  /\ Symtab # NoShdr

ReturnedRange == SymRanges[1].range

\* The range is exactly the bodies of indices lo .. hi.
IsRange(r, lo, hi) ==
  /\ ~r.Length.wrapped
  /\ IF hi < lo THEN r.Length.value = 0
     ELSE r.Begin = lo /\ r.Length.value = hi - lo + 1

\* C18: with n symbol bodies and sh_info = f, 0 <= f <= n, getLocalSymbols
\* returns the bodies 1 .. f-1 (none when f <= 1), getNonLocalSymbols the
\* bodies f .. n-1, no length wraps around and no range reaches outside
\* the n bodies.
C18_Claim ==
  LET n == Len(SymbolBodies)
      f == Shdrs[Symtab + 1].sh_info IN
  /\ Called("getLocalSymbols") => IsRange(ReturnedRange, 1, f - 1)
  /\ Called("getNonLocalSymbols") => IsRange(ReturnedRange, f, n - 1)
  /\ \A accessor \in Accessors :
       Called(accessor) =>
         /\ pc # "crashed"
         /\ ~ReturnedRange.Length.wrapped
         /\ ReturnedRange.Begin + ReturnedRange.Length.value <= n

\* The slices are the ones C18 gives whenever the symbol table has its
\* null symbol counted among the locals (sh_info >= 1).
RangesOfProperSymbolTables ==
  (Symtab # NoShdr /\ SymRanges # <<>> /\ Shdrs[Symtab + 1].sh_info >= 1) =>
    C18_Claim

====
